---- MODULE Spec2Model ----
(***************************************************************************)
(* Model of server.js: the Instagram follow automation engine.             *)
(*                                                                         *)
(* Node runs the handlers on one thread; an async function runs without    *)
(* interruption from one await to the next.  Every action below is one     *)
(* such uninterrupted stretch of automateFollow (with the functions it     *)
(* calls), placed at the instant at which the stretch touches the shared   *)
(* stores sessionStore, lastFollowAction and accountHealth.  The browser   *)
(* and the remote site are the environment: what a navigation or an        *)
(* evaluation yields is an input of the action.                            *)
(***************************************************************************)
EXTENDS Integers, Sequences, FiniteSets, TLC

(***************************************************************************)
(* Program constants (server.js lines 19-49).                              *)
(***************************************************************************)
MAX_RETRIES == 3
BASE_DELAY_MS == 2000
SESSION_DURATION_MS == 24 * 60 * 60 * 1000
MIN_COOLDOWN_MS == 30000
MAX_COOLDOWN_MS == 60000
MAX_WARNINGS == 10
RATE_LIMIT_WINDOW_MS == 60000
RATE_LIMIT_MAX_REQUESTS == 5
GLOBAL_RATE_LIMIT_MAX == 20

(***************************************************************************)
(* Bounds of the model.                                                    *)
(***************************************************************************)
\* Concurrent follow requests (one slot per request), numbered by arrival.
NumOps == 3
\* Date.now() when the process starts, in ms.
StartTime == 100000
\* How far the clock runs past StartTime in the cooldown specification.
CooldownHorizon == 60000
\* How far the clock runs past one session lifetime in the session
\* specification.
SessionSlack == 30000
\* Requests served one after the other in the health specification.
MaxRequests == 12
\* Client addresses that send requests.
NumIps == 5
\* Rate-limit windows the clock runs through in the request specification.
RateWindows == 1
\* How far the clock runs past StartTime in the termination specification.
LiveHorizon == 80000
SerialRequests == 3

Ops == 1..NumOps
Ips == 1..NumIps

\* The grid on which the environment lets time pass by itself.
Tick == MIN_COOLDOWN_MS \div 2

NoValue == "none"

\* No username (null); a username is the sequence of its characters.
NoUsername == <<>>

(***************************************************************************)
(* Arithmetic helpers.                                                     *)
(***************************************************************************)
RECURSIVE Pow2(_)
Pow2(n) == IF n = 0 THEN 1 ELSE 2 * Pow2(n - 1)

\* Math.random() yields a fraction num/RandDen in [0, 1); the model draws the
\* numerators in RandNums.  RandDen is chosen so that the largest fraction
\* below 1 that Math.floor can tell apart in enforceCooldown is drawn.
RandDen == MAX_COOLDOWN_MS - MIN_COOLDOWN_MS + 1
RandNums == {0, Tick, 2 * Tick}

\* Math.floor(Math.random() * (max - min + 1)) + min, for Math.random() = num/RandDen.
RandomInt(num, min, max) == ((num * (max - min + 1)) \div RandDen) + min

\* A changed getBackoffDelay: the attempt taken as 1-indexed.
getBackoffDelayFromOne(attempt) == BASE_DELAY_MS * Pow2(attempt + 1)

\* getBackoffDelay (server.js 82-84).
getBackoffDelay(attempt) == BASE_DELAY_MS * Pow2(attempt)

\* A changed requiredCooldown: the draw without the minimum added.
requiredCooldownNoMin(num) == RandomInt(num, 0, MAX_COOLDOWN_MS - MIN_COOLDOWN_MS)

\* requiredCooldown of enforceCooldown (server.js 151).
requiredCooldown(num) == RandomInt(num, MIN_COOLDOWN_MS, MAX_COOLDOWN_MS)

(***************************************************************************)
(* Pages.  A rendered page is what the code's evaluations read of it:      *)
(*   text     the marker phrases that occur in document.body.innerText,    *)
(*            lower-cased (bodyText.includes(p) is p \in text)             *)
(*   html     the marker phrases that occur in document.body.innerHTML     *)
(*   nav, ariaHome, directLink                                             *)
(*            whether querySelector finds 'nav', '[aria-label="Home"]',    *)
(*            'a[href*="/direct/"]'                                        *)
(*   path     window.location.pathname                                     *)
(*   buttons  the <button> elements in document order, each with its       *)
(*            innerText (lower-cased, trimmed), its aria-label             *)
(*            (lower-cased, "" when absent) and whether it lies in         *)
(*            <header>                                                     *)
(***************************************************************************)
Page(text, html, landmarks, path, buttons) ==
  [text |-> text, html |-> html, nav |-> landmarks, ariaHome |-> landmarks,
   directLink |-> landmarks, path |-> path, buttons |-> buttons]

Button(text, aria, inHeader) == [text |-> text, aria |-> aria, inHeader |-> inHeader]

\* s.includes(sub) for the button labels and aria-labels of the model.
ProperSubstrings ==
  { <<"following", "follow">>, <<"follow back", "follow">>, <<"unfollow", "follow">>,
    <<"unfollow user", "unfollow">>, <<"unfollow user", "follow">>,
    <<"follow user", "follow">> }

StrIncludes(s, sub) == s = sub \/ <<s, sub>> \in ProperSubstrings

\* bodyText.includes(phrase)
Includes(text, phrase) == phrase \in text

\* Array.prototype.find: the first of the indices (hits) of the elements that
\* satisfy the predicate, 0 when there is none.
FindIndex(hits) == IF hits = {} THEN 0 ELSE CHOOSE i \in hits : \A j \in hits : i <= j

(***************************************************************************)
(* checkAccountHealth, the classification (server.js 171-201).             *)
(***************************************************************************)
IssueKeys ==
  {"actionBlocked", "temporaryBan", "spamDetected", "rateLimited", "accountWarning",
   "captchaChallenge"}
\* A changed blockPatterns: the account warning needs one of its phrases
\* only, and the markup is not looked at.
blockPatternsLoose(page) ==
  LET bodyText == page.text
  IN [actionBlocked |-> \/ Includes(bodyText, "action blocked")
                        \/ Includes(bodyText, "we restrict certain activity")
                        \/ Includes(bodyText, "this action was blocked"),
      temporaryBan |-> \/ Includes(bodyText, "try again later")
                       \/ Includes(bodyText, "please wait a few minutes"),
      spamDetected |-> \/ Includes(bodyText, "unusual activity")
                       \/ Includes(bodyText, "spam")
                       \/ Includes(bodyText, "automated behavior"),
      rateLimited |-> \/ Includes(bodyText, "too many requests")
                      \/ Includes(bodyText, "slow down"),
      accountWarning |-> \/ Includes(bodyText, "your account")
                         \/ Includes(bodyText, "warning")
                         \/ Includes(bodyText, "violation"),
      captchaChallenge |-> \/ Includes(bodyText, "security check")
                           \/ Includes(bodyText, "prove you're not a robot")]

blockPatterns(page) ==
  LET bodyText == page.text
      htmlContent == page.html
  IN [actionBlocked |-> \/ Includes(bodyText, "action blocked")
                        \/ Includes(bodyText, "we restrict certain activity")
                        \/ Includes(bodyText, "this action was blocked"),
      temporaryBan |-> \/ Includes(bodyText, "try again later")
                       \/ Includes(bodyText, "please wait a few minutes"),
      spamDetected |-> \/ Includes(bodyText, "unusual activity")
                       \/ Includes(bodyText, "spam")
                       \/ Includes(bodyText, "automated behavior"),
      rateLimited |-> \/ Includes(bodyText, "too many requests")
                      \/ Includes(bodyText, "slow down"),
      accountWarning |-> /\ Includes(bodyText, "your account")
                         /\ \/ Includes(bodyText, "warning")
                            \/ Includes(bodyText, "violation"),
      captchaChallenge |-> \/ Includes(bodyText, "security check")
                           \/ Includes(htmlContent, "recaptcha")
                           \/ Includes(bodyText, "prove you're not a robot")]

detectedIssues(page) == {k \in IssueKeys : blockPatterns(page)[k]}

healthCheckOf(page) ==
  [isHealthy |-> ~(\E k \in IssueKeys : blockPatterns(page)[k]),
   detectedIssues |-> detectedIssues(page)]

(***************************************************************************)
(* The evaluations of loginToInstagram (server.js 383-387, 430-436,        *)
(* 443-448).                                                               *)
(***************************************************************************)
isLoggedInRestored(page) == page.nav \/ page.ariaHome \/ page.directLink

is2FAPresent(page) ==
  \/ Includes(page.text, "security code")
  \/ Includes(page.text, "two-factor")
  \/ Includes(page.text, "authentication")
  \/ Includes(page.text, "verify")

\* The phrases by which a page shows a two-factor challenge.
TwoFactorMarkers == {"security code", "two-factor", "authentication", "verify"}

isLoggedInFresh(page) == page.nav \/ page.ariaHome \/ page.path = "/"

(***************************************************************************)
(* The evaluations of followUser (server.js 507-512, 519-523, 533-577,     *)
(* 609-626).                                                               *)
(***************************************************************************)
pageNotFound(page) ==
  \/ Includes(page.text, "sorry, this page isn't available")
  \/ Includes(page.text, "page not found")
  \/ Includes(page.text, "couldn't find")

isBlockedByUser(page) ==
  \/ Includes(page.text, "no posts yet") /\ Includes(page.text, "when")
  \/ Includes(page.text, "user not found")

Strategy1(btn) ==
  \/ btn.text = "follow" \/ btn.text = "following" \/ btn.text = "requested"
  \/ btn.text = "follow back" \/ StrIncludes(btn.text, "unfollow")

Strategy2(btn) == StrIncludes(btn.aria, "follow") \/ StrIncludes(btn.aria, "unfollow")

Strategy3(btn) ==
  btn.inHeader /\ (btn.text = "follow" \/ btn.text = "following" \/ btn.text = "requested")

\* The index of the located follow button, 0 when none is found.
followButton(page) ==
  LET buttons == page.buttons
      i1 == FindIndex({i \in 1..Len(buttons) : Strategy1(buttons[i])})
      i2 == FindIndex({i \in 1..Len(buttons) : Strategy2(buttons[i])})
      i3 == FindIndex({i \in 1..Len(buttons) : Strategy3(buttons[i])})
  IN IF i1 # 0 THEN i1 ELSE IF i2 # 0 THEN i2 ELSE i3

buttonInfo(page) ==
  LET i == followButton(page)
      buttonText == page.buttons[i].text
  IN IF i = 0
     THEN [found |-> FALSE, text |-> NoValue, isFollowing |-> FALSE, isPending |-> FALSE,
           canFollow |-> FALSE]
     ELSE [found |-> TRUE, text |-> buttonText,
           isFollowing |-> buttonText = "following" \/ StrIncludes(buttonText, "unfollow"),
           isPending |-> buttonText = "requested",
           canFollow |-> buttonText = "follow" \/ buttonText = "follow back"]

SettledLabel(btn) ==
  btn.text = "following" \/ btn.text = "requested" \/ StrIncludes(btn.text, "unfollow")

newButtonState(page) ==
  LET i == FindIndex({k \in 1..Len(page.buttons) : SettledLabel(page.buttons[k])})
      text == page.buttons[i].text
  IN IF i = 0
     THEN [success |-> FALSE, isPrivate |-> FALSE, isFollowing |-> FALSE]
     ELSE [success |-> TRUE, isPrivate |-> text = "requested",
           isFollowing |-> text = "following" \/ StrIncludes(text, "unfollow")]

(***************************************************************************)
(* followUser's results (server.js 499-503, 515, 526, 580, 585, 590,       *)
(* 634-652).                                                               *)
(***************************************************************************)
Result(status, message, healthIssues) ==
  [status |-> status, message |-> message, healthIssues |-> healthIssues]

\* A changed preClickResult: the existence check comes before the health gate.
preClickResultExistenceFirst(page) ==
  LET healthCheckBefore == healthCheckOf(page)
      info == buttonInfo(page)
  IN IF pageNotFound(page) THEN Result("notfound", "Profile does not exist", {})
     ELSE IF ~healthCheckBefore.isHealthy
       THEN Result("failed", "Account blocked by Instagram", healthCheckBefore.detectedIssues)
     ELSE IF isBlockedByUser(page)
       THEN Result("blocked", "Blocked by user or user not accessible", {})
     ELSE IF ~info.found
       THEN Result("failed", "Could not locate follow button (possible UI change)", {})
     ELSE IF info.isFollowing
       THEN Result("alreadyfollowed", "Already following this user", {})
     ELSE IF info.isPending
       THEN Result("privateorpending", "Follow request already pending (private account)", {})
     ELSE IF info.canFollow THEN Result("click", NoValue, {})
     ELSE Result("failed", "Unknown button state", {})

\* A changed preClickResult: the control can be followed when its label
\* contains 'follow', and that is looked at first.
preClickResultLoose(page) ==
  LET healthCheckBefore == healthCheckOf(page)
      info == buttonInfo(page)
  IN IF ~healthCheckBefore.isHealthy
       THEN Result("failed", "Account blocked by Instagram", healthCheckBefore.detectedIssues)
     ELSE IF pageNotFound(page) THEN Result("notfound", "Profile does not exist", {})
     ELSE IF isBlockedByUser(page)
       THEN Result("blocked", "Blocked by user or user not accessible", {})
     ELSE IF ~info.found
       THEN Result("failed", "Could not locate follow button (possible UI change)", {})
     ELSE IF StrIncludes(info.text, "follow") THEN Result("click", NoValue, {})
     ELSE IF info.isFollowing
       THEN Result("alreadyfollowed", "Already following this user", {})
     ELSE IF info.isPending
       THEN Result("privateorpending", "Follow request already pending (private account)", {})
     ELSE Result("failed", "Unknown button state", {})

\* What followUser does with the profile page once its health check passed or
\* failed, up to the click: a result, or "click" when the control is invoked.
preClickResult(page) ==
  LET healthCheckBefore == healthCheckOf(page)
      info == buttonInfo(page)
  IN IF ~healthCheckBefore.isHealthy
       THEN Result("failed", "Account blocked by Instagram", healthCheckBefore.detectedIssues)
     ELSE IF pageNotFound(page) THEN Result("notfound", "Profile does not exist", {})
     ELSE IF isBlockedByUser(page)
       THEN Result("blocked", "Blocked by user or user not accessible", {})
     ELSE IF ~info.found
       THEN Result("failed", "Could not locate follow button (possible UI change)", {})
     ELSE IF info.isFollowing
       THEN Result("alreadyfollowed", "Already following this user", {})
     ELSE IF info.isPending
       THEN Result("privateorpending", "Follow request already pending (private account)", {})
     ELSE IF info.canFollow THEN Result("click", NoValue, {})
     ELSE Result("failed", "Unknown button state", {})

\* The label of the control followUser locates on the profile page, NoValue when
\* it does not get to locate one.
locatedLabel(page) ==
  IF healthCheckOf(page).isHealthy /\ ~pageNotFound(page) /\ ~isBlockedByUser(page)
     /\ buttonInfo(page).found
  THEN buttonInfo(page).text
  ELSE NoValue

\* The evaluations followUser runs on the profile page, in the order of the
\* code, up to the one after which it returns or clicks.
evaluations(page) ==
  IF ~healthCheckOf(page).isHealthy THEN <<"checkAccountHealth">>
  ELSE IF pageNotFound(page) THEN <<"checkAccountHealth", "pageNotFound">>
  ELSE IF isBlockedByUser(page) THEN <<"checkAccountHealth", "pageNotFound", "isBlocked">>
  ELSE <<"checkAccountHealth", "pageNotFound", "isBlocked", "buttonInfo">>

\* What the profile page shows, whether or not followUser looks at it.
pageMarkers(page) ==
  (IF detectedIssues(page) # {} THEN {"issues"} ELSE {})
    \cup (IF pageNotFound(page) THEN {"notfound"} ELSE {})
    \cup (IF isBlockedByUser(page) THEN {"blocked"} ELSE {})
    \cup (IF followButton(page) # 0 THEN {"control"} ELSE {})

\* What followUser returns after the click, from the page as it then is.
\* checked tells whether the second health check ran.
postClickChecked(page) == newButtonState(page).success

\* The label newButtonState finds on the settled page, NoValue when it finds
\* none.
settledLabel(page) ==
  LET i == FindIndex({k \in 1..Len(page.buttons) : SettledLabel(page.buttons[k])})
  IN IF i = 0 THEN NoValue ELSE page.buttons[i].text

\* A changed postClickResult: the settled label decides, whatever the second
\* health check says.
postClickResultUnchecked(page) ==
  LET state == newButtonState(page)
  IN IF state.success /\ state.isPrivate
       THEN Result("privateorpending", "Follow request sent (private account)", {})
     ELSE IF state.success /\ state.isFollowing
       THEN Result("followed", "Successfully followed user", {})
     ELSE Result("failed", "Follow action did not complete as expected", {})

postClickResult(page) ==
  LET state == newButtonState(page)
      healthCheckAfter == healthCheckOf(page)
  IN IF state.success /\ ~healthCheckAfter.isHealthy
       THEN Result("failed", "Follow action triggered Instagram block",
                   healthCheckAfter.detectedIssues)
     ELSE IF state.success /\ state.isPrivate
       THEN Result("privateorpending", "Follow request sent (private account)", {})
     ELSE IF state.success /\ state.isFollowing
       THEN Result("followed", "Successfully followed user", {})
     ELSE Result("failed", "Follow action did not complete as expected", {})

(***************************************************************************)
(* State.                                                                  *)
(*   now               Date.now()                                          *)
(*   sessionStore      NoSession or {cookies, createdAt, loginCount}       *)
(*   lastFollowAction  {timestamp, username}                               *)
(*   accountHealth     the health record                                   *)
(*   ops               one automateFollow invocation per slot: its place   *)
(*                     in the code (pc), its locals, and a log of what it  *)
(*                     has done so far                                     *)
(*   http              the request layer: rateLimitStore, globalRequestCount, *)
(*                     globalResetAt, and a log of the last reply sent      *)
(*                     without the engine and of the last request body      *)
(***************************************************************************)
VARIABLES now, sessionStore, lastFollowAction, accountHealth, ops, http

vars == <<now, sessionStore, lastFollowAction, accountHealth, ops, http>>

\* sessionStore = null.  The cookies are named after the slot whose context they
\* were read from.
NoSession == [cookies |-> 0, createdAt |-> 0, loginCount |-> 0]

NoResult == Result(NoValue, NoValue, {})

\* A response without the accountHealth field.
NoHealth == [isHealthy |-> TRUE, totalBlocks |-> -1, consecutiveErrors |-> -1]

NoResponse ==
  [success |-> FALSE, status |-> NoValue, errorDetails |-> NoValue,
   healthWarning |-> {}, accountHealth |-> NoHealth]

\* An address rateLimitStore has no entry for.
NoClient == [count |-> 0, resetAt |-> 0]

\* The log of the request layer: the last reply a route sent by itself.
NoReply ==
  [route |-> NoValue, code |-> 0, message |-> NoValue,
   isActive |-> FALSE, expiresInMinutes |-> 0, loginCount |-> 0]

\* No browser context: the identity of the object and the attempt that
\* created it.
NoContext == [id |-> 0, madeIn |-> 0]

\* The log of the request layer: the username field of the last request
\* body, here of none.
NoBody == [kind |-> "undefined", chars |-> <<>>]

IdleOp ==
  [pc |-> "idle", username |-> NoUsername, attempt |-> 0, browser |-> FALSE,
   context |-> NoContext,
   restored |-> FALSE, hasRestoredSession |-> FALSE, wakeAt |-> 0,
   result |-> NoResult, error |-> NoValue, response |-> NoResponse,
   \* the log
   restoredFrom |-> NoSession,
   classified |-> [any |-> FALSE, text |-> {}, html |-> {}, issues |-> {}],
   procs |-> 0, launches |-> 0, thrown |-> 0, sleeps |-> <<>>, clicks |-> 0,
   cdCalls |-> 0, cdWrites |-> 0, cdFirst |-> FALSE, cdOverlap |-> FALSE,
   cdPrev |-> 0, cdRequired |-> 0, cdElapsed |-> 0, cdWait |-> 0,
   saw2FA |-> FALSE, located |-> NoValue, outcome |-> NoValue,
   homeOk |-> FALSE, submitted |-> FALSE, verified |-> FALSE, verdicts |-> <<>>,
   settled |-> NoValue, served |-> 0, httpStatus |-> 0, markers |-> {}, evals |-> <<>>]

Init ==
  /\ now = StartTime
  /\ sessionStore = NoSession
  /\ lastFollowAction = [timestamp |-> 0, username |-> NoUsername]
  /\ accountHealth = [isHealthy |-> TRUE, lastCheckAt |-> StartTime, blockDetectedAt |-> 0,
                      consecutiveErrors |-> 0, totalBlocks |-> 0, warnings |-> <<>>]
  /\ ops = [o \in Ops |-> IdleOp]
  /\ http = [rateLimitStore |-> [ip \in Ips |-> NoClient], globalRequestCount |-> 0,
             globalResetAt |-> StartTime + RATE_LIMIT_WINDOW_MS, reply |-> NoReply,
             body |-> NoBody,
             \* the log: the Authorization header of the last POST /follow
             auth |-> <<>>]

(***************************************************************************)
(* Session store (server.js 91-120).                                       *)
(***************************************************************************)
\* isExpired of isSessionValid (server.js 94-95).
isExpired(s, t) == t - s.createdAt > SESSION_DURATION_MS

\* The value isSessionValid returns.
isSessionValid(s, t) == s # NoSession /\ ~isExpired(s, t)
\* A changed sessionAfterValidation: an expired session stays in the store.
sessionAfterValidationKept(s, t) == s

\* The session store isSessionValid leaves behind.
sessionAfterValidation(s, t) == IF s # NoSession /\ isExpired(s, t) THEN NoSession ELSE s

\* A changed saveSession: the login count starts anew at every save.
saveSessionAnew(s, o, t) == [cookies |-> o, createdAt |-> t, loginCount |-> 1]

\* saveSession: the store after the cookies of the context of o are saved at t.
saveSession(s, o, t) ==
  [cookies |-> o, createdAt |-> t,
   loginCount |-> IF s # NoSession THEN s.loginCount + 1 ELSE 1]

(***************************************************************************)
(* checkAccountHealth, the update of the record (server.js 204-230).       *)
(***************************************************************************)
\* A changed Shift: nothing is ever dropped.
ShiftNever(w) == w

\* The eviction of the oldest warning (server.js 214-217).
Shift(w) == IF Len(w) > MAX_WARNINGS THEN Tail(w) ELSE w

\* A changed recordHealth: a healthy verdict leaves consecutiveErrors as it is.
recordHealthNoReset(h, check, t) ==
  IF ~check.isHealthy
  THEN [isHealthy |-> FALSE, lastCheckAt |-> t, blockDetectedAt |-> t,
        totalBlocks |-> h.totalBlocks + 1, consecutiveErrors |-> h.consecutiveErrors + 1,
        warnings |-> Append(h.warnings, [timestamp |-> t, issues |-> check.detectedIssues])]
  ELSE [h EXCEPT !.isHealthy = TRUE, !.lastCheckAt = t]
\* A changed recordHealth: a healthy verdict resets consecutiveErrors and
\* leaves isHealthy as it is.
recordHealthNoRecovery(h, check, t) ==
  IF ~check.isHealthy
  THEN [isHealthy |-> FALSE, lastCheckAt |-> t, blockDetectedAt |-> t,
        totalBlocks |-> h.totalBlocks + 1, consecutiveErrors |-> h.consecutiveErrors + 1,
        warnings |-> Shift(Append(h.warnings, [timestamp |-> t, issues |-> check.detectedIssues]))]
  ELSE [h EXCEPT !.consecutiveErrors = 0, !.lastCheckAt = t]

recordHealth(h, check, t) ==
  IF ~check.isHealthy
  THEN [isHealthy |-> FALSE, lastCheckAt |-> t, blockDetectedAt |-> t,
        totalBlocks |-> h.totalBlocks + 1, consecutiveErrors |-> h.consecutiveErrors + 1,
        warnings |-> Shift(Append(h.warnings, [timestamp |-> t, issues |-> check.detectedIssues]))]
  ELSE [h EXCEPT !.consecutiveErrors = 0, !.isHealthy = TRUE, !.lastCheckAt = t]

\* The part of the record a response carries (server.js 705-709, 739-743).
healthSummary(h) ==
  [isHealthy |-> h.isHealthy, totalBlocks |-> h.totalBlocks,
   consecutiveErrors |-> h.consecutiveErrors]

(***************************************************************************)
(* enforceCooldown (server.js 140-162).                                    *)
(***************************************************************************)
\* A changed waitTime: the whole interval, whatever has elapsed.
waitTimeWhole(required, timeSinceLastAction) == required

\* waitTime of enforceCooldown (server.js 154).
waitTime(required, timeSinceLastAction) == required - timeSinceLastAction

\* A request for username arrives and automateFollow calls enforceCooldown,
\* which runs up to its setTimeout or to its end.  num is Math.random()'s draw.
\* Requests take the slots in the order of their arrival.  The request layer's
\* counters are set by the route that makes the call.
StartFollow(o, username, num) ==
  LET timeSinceLastAction == now - lastFollowAction.timestamp
      required == requiredCooldown(num)
      overlap == \E p \in Ops : ops[p].pc = "cooldown"
      \* the log: the calls still waiting overlap with this one
      others == [p \in Ops |-> IF ops[p].pc = "cooldown"
                                THEN [ops[p] EXCEPT !.cdOverlap = TRUE]
                                ELSE ops[p]]
      called == [ops[o] EXCEPT !.username = username, !.cdCalls = @ + 1,
                               !.cdPrev = lastFollowAction.timestamp, !.cdOverlap = overlap]
  IN /\ ops[o].pc = "idle"
     /\ \A p \in Ops : p < o => ops[p].pc # "idle"
     /\ IF lastFollowAction.timestamp = 0
        THEN /\ lastFollowAction' = [timestamp |-> now, username |-> username]
             /\ ops' = [others EXCEPT ![o] = [called EXCEPT !.pc = "launch", !.cdFirst = TRUE,
                                                            !.cdWrites = @ + 1]]
        ELSE IF timeSinceLastAction < required
        THEN /\ UNCHANGED lastFollowAction
             /\ ops' = [others EXCEPT ![o] =
                          [called EXCEPT !.pc = "cooldown", !.cdRequired = required,
                                         !.cdElapsed = timeSinceLastAction,
                                         !.cdWait = waitTime(required, timeSinceLastAction),
                                         !.wakeAt = now + waitTime(required, timeSinceLastAction)]]
        ELSE /\ lastFollowAction' = [timestamp |-> now, username |-> username]
             /\ ops' = [others EXCEPT ![o] = [called EXCEPT !.pc = "launch",
                                                            !.cdRequired = required,
                                                            !.cdElapsed = timeSinceLastAction,
                                                            !.cdWrites = @ + 1]]
     /\ UNCHANGED <<now, sessionStore, accountHealth>>

\* A changed CooldownWake: when the timer has fired the wait starts again.
CooldownWakeRearmed(o) ==
  /\ ops[o].pc = "cooldown"
  /\ now >= ops[o].wakeAt
  /\ ops' = [ops EXCEPT ![o].wakeAt = now + ops[o].cdWait]
  /\ UNCHANGED <<now, sessionStore, lastFollowAction, accountHealth, http>>

\* The setTimeout of enforceCooldown has fired: the record is overwritten.
CooldownWake(o) ==
  /\ ops[o].pc = "cooldown"
  /\ now >= ops[o].wakeAt
  /\ lastFollowAction' = [timestamp |-> now, username |-> ops[o].username]
  /\ ops' = [ops EXCEPT ![o].pc = "launch", ![o].cdWrites = @ + 1]
  /\ UNCHANGED <<now, sessionStore, accountHealth, http>>

(***************************************************************************)
(* One attempt of automateFollow (server.js 673-751), with launchBrowser,  *)
(* loginToInstagram and followUser.                                        *)
(***************************************************************************)
Throw(op, message) ==
  [op EXCEPT !.pc = "catch", !.error = message, !.result = NoResult, !.thrown = @ + 1]

\* browser.newContext (server.js 343-351): an object distinct from every
\* context some operation holds, made in the current attempt of o.
newContext(o) ==
  LET held == {ops[p].context.id : p \in Ops}
  IN [id |-> CHOOSE n \in 1..(NumOps + 1) : n \notin held /\ \A m \in 1..(n - 1) : m \in held,
      madeIn |-> ops[o].attempt]

\* launchBrowser up to restoreSession's addCookies (server.js 324-356).
\* outcome: chromium.launch rejects, browser.newContext rejects, or both resolve.
LaunchBrowser(o, outcome) ==
  LET started == [ops[o] EXCEPT !.launches = @ + 1, !.restored = FALSE,
                                !.restoredFrom = NoSession,
                                !.hasRestoredSession = FALSE, !.result = NoResult,
                                !.error = NoValue, !.saw2FA = FALSE, !.located = NoValue,
                                !.outcome = NoValue, !.homeOk = FALSE, !.submitted = FALSE,
                                !.verified = FALSE, !.verdicts = <<>>,
                                !.settled = NoValue, !.markers = {}, !.evals = <<>>,
                                \* the locals of enforceCooldown are out of scope
                                !.cdFirst = FALSE, !.cdOverlap = FALSE, !.cdPrev = 0,
                                !.cdRequired = 0, !.cdElapsed = 0, !.cdWait = 0]
      valid == isSessionValid(sessionStore, now)
  IN /\ ops[o].pc = "launch"
     /\ ops[o].attempt < MAX_RETRIES
     /\ CASE outcome = "launchThrows" ->
               /\ ops' = [ops EXCEPT ![o] = Throw(started, "launch failed")]
               /\ UNCHANGED sessionStore
          [] outcome = "contextThrows" ->
               /\ ops' = [ops EXCEPT ![o] = Throw([started EXCEPT !.procs = @ + 1],
                                                  "context failed")]
               /\ UNCHANGED sessionStore
          [] outcome = "ok" ->
               /\ sessionStore' = sessionAfterValidation(sessionStore, now)
               /\ ops' = [ops EXCEPT ![o] = [started EXCEPT !.procs = @ + 1,
                                                            !.restored = valid,
                                                            \* the log: the session whose
                                                            \* cookies go into the context
                                                            !.restoredFrom =
                                                               IF valid THEN sessionStore
                                                               ELSE NoSession,
                                                            !.context = newContext(o),
                                                            !.pc = "opened"]]
     /\ UNCHANGED <<now, lastFollowAction, accountHealth, http>>

\* The rest of launchBrowser, context.newPage, the second isSessionValid and the
\* first navigation of loginToInstagram (server.js 355-358, 676-684, 373-378, 400).
\* outcome: addCookies rejects, newPage rejects, or both resolve.
OpenPage(o, outcome) ==
  LET hasRestoredSession == isSessionValid(sessionStore, now)
  IN /\ ops[o].pc = "opened"
     /\ CASE outcome = "cookiesThrow" ->
               /\ ops[o].restored
               /\ ops' = [ops EXCEPT ![o] = Throw([ops[o] EXCEPT !.context = NoContext],
                                                  "addCookies failed")]
               /\ UNCHANGED sessionStore
          [] outcome = "pageThrows" ->
               /\ ops' = [ops EXCEPT ![o] = Throw([ops[o] EXCEPT !.browser = TRUE],
                                                  "newPage failed")]
               /\ UNCHANGED sessionStore
          [] outcome = "ok" ->
               /\ sessionStore' = sessionAfterValidation(sessionStore, now)
               /\ ops' = [ops EXCEPT ![o].browser = TRUE,
                                     ![o].hasRestoredSession = hasRestoredSession,
                                     ![o].pc = IF hasRestoredSession THEN "liveness"
                                               ELSE "login"]
     /\ UNCHANGED <<now, lastFollowAction, accountHealth, http>>

\* A changed CheckRestoredLiveness: the fresh login follows whatever the home
\* page shows.
CheckRestoredLivenessAnyway(o, throws, page) ==
  /\ ops[o].pc = "liveness"
  /\ ops' = [ops EXCEPT ![o] =
               IF throws THEN Throw(ops[o], "timeout")
               ELSE [ops[o] EXCEPT !.pc = "login",
                                   !.homeOk = (page.nav \/ page.ariaHome \/ page.directLink)]]
  /\ UNCHANGED <<now, sessionStore, lastFollowAction, accountHealth, http>>
\* A changed CheckRestoredLiveness: a home page without landmarks leads to
\* the fresh login with the session left in the store.
CheckRestoredLivenessKeeping(o, throws, page) ==
  LET seen == [ops[o] EXCEPT !.homeOk = (page.nav \/ page.ariaHome \/ page.directLink)]
  IN /\ ops[o].pc = "liveness"
     /\ ops' = [ops EXCEPT ![o] =
                  IF throws THEN Throw(ops[o], "timeout")
                  ELSE IF isLoggedInRestored(page) THEN [seen EXCEPT !.pc = "profile"]
                  ELSE [seen EXCEPT !.pc = "login"]]
     /\ UNCHANGED <<now, sessionStore, lastFollowAction, accountHealth, http>>

\* loginToInstagram with a restored session (server.js 373-396): the home page
\* has loaded and shows page, or the navigation or the evaluation rejects.
CheckRestoredLiveness(o, throws, page) ==
  LET \* the log: whether the home page shows an authenticated landmark
      seen == [ops[o] EXCEPT !.homeOk = (page.nav \/ page.ariaHome \/ page.directLink)]
  IN /\ ops[o].pc = "liveness"
     /\ IF throws
        THEN /\ ops' = [ops EXCEPT ![o] = Throw(ops[o], "timeout")]
             /\ UNCHANGED sessionStore
        ELSE IF isLoggedInRestored(page)
        THEN /\ ops' = [ops EXCEPT ![o] = [seen EXCEPT !.pc = "profile"]]
             /\ UNCHANGED sessionStore
        ELSE /\ sessionStore' = NoSession
             /\ ops' = [ops EXCEPT ![o] = [seen EXCEPT !.pc = "login"]]
     /\ UNCHANGED <<now, lastFollowAction, accountHealth, http>>

\* The fresh login (server.js 399-472): the credentials are submitted and the
\* site answers with page.  outcome: a navigation, wait, fill or click rejects
\* ("throws"), every step resolves ("ok"), or the session is saved and the
\* dismissal of the prompts rejects ("dismissThrows").
FreshLogin(o, outcome, page) ==
  LET \* the log: whether the page shows a two-factor marker
      \* that the credentials were submitted, and whether the page shows an
      \* authenticated landmark
      seen == [ops[o] EXCEPT !.saw2FA = (page.text \cap TwoFactorMarkers # {}),
                             !.submitted = TRUE,
                             !.verified = (page.nav \/ page.ariaHome \/ page.path = "/")]
  IN /\ ops[o].pc = "login"
     /\ CASE outcome = "throws" ->
               /\ ops' = [ops EXCEPT ![o] = Throw(ops[o], "timeout")]
               /\ UNCHANGED sessionStore
          [] outcome \in {"ok", "dismissThrows"} ->
               IF is2FAPresent(page)
               THEN /\ outcome = "ok"
                    /\ ops' = [ops EXCEPT ![o] = Throw(seen, "2FA_CHALLENGE_DETECTED")]
                    /\ UNCHANGED sessionStore
               ELSE IF ~isLoggedInFresh(page)
               THEN /\ outcome = "ok"
                    /\ ops' = [ops EXCEPT ![o] = Throw(seen, "LOGIN_FAILED")]
                    /\ UNCHANGED sessionStore
               ELSE /\ sessionStore' = saveSession(sessionStore, o, now)
                    /\ ops' = [ops EXCEPT ![o] = IF outcome = "ok"
                                                 THEN [seen EXCEPT !.pc = "profile"]
                                                 ELSE Throw(seen, "timeout")]
  /\ UNCHANGED <<now, lastFollowAction, accountHealth, http>>

\* followUser up to the click (server.js 488-604): the profile has loaded and
\* shows page, or the navigation rejects.
FollowPre(o, throws, page) ==
  LET r == preClickResult(page)
      \* the log: the control that was located
      \* and the verdict of the health classification
      seen == [ops[o] EXCEPT !.located = locatedLabel(page),
                             !.verdicts = Append(@, detectedIssues(page)),
                             !.classified = [any |-> TRUE, text |-> page.text,
                                             html |-> page.html,
                                             issues |-> detectedIssues(page)],
                             !.markers = pageMarkers(page),
                             !.evals = evaluations(page)]
  IN /\ ops[o].pc = "profile"
     /\ IF throws
        THEN /\ ops' = [ops EXCEPT ![o] = Throw(ops[o], "timeout")]
             /\ UNCHANGED accountHealth
        ELSE /\ accountHealth' = recordHealth(accountHealth, healthCheckOf(page), now)
             /\ ops' = [ops EXCEPT ![o] = IF r.status = "click"
                                          THEN [seen EXCEPT !.pc = "clicked", !.clicks = @ + 1]
                                          ELSE [seen EXCEPT !.pc = "closing", !.result = r,
                                                            !.outcome = r.status]]
     /\ UNCHANGED <<now, sessionStore, lastFollowAction, http>>

\* followUser up to the click, when an evaluation rejects after the first
\* health classification has passed (server.js 496-604): the record is updated
\* and the error is thrown.
FollowPreRejects(o, page) ==
  /\ ops[o].pc = "profile"
  /\ healthCheckOf(page).isHealthy
  /\ accountHealth' = recordHealth(accountHealth, healthCheckOf(page), now)
  /\ ops' = [ops EXCEPT ![o] =
               Throw([ops[o] EXCEPT !.verdicts = Append(@, detectedIssues(page)),
                                    !.classified = [any |-> TRUE, text |-> page.text,
                                                    html |-> page.html,
                                                    issues |-> detectedIssues(page)]],
                     "timeout")]
  /\ UNCHANGED <<now, sessionStore, lastFollowAction, http>>

\* followUser after the click (server.js 606-649): the page has settled and
\* shows page, or an evaluation rejects.
FollowPost(o, throws, page) ==
  /\ ops[o].pc = "clicked"
  /\ IF throws
     THEN /\ ops' = [ops EXCEPT ![o] = Throw(ops[o], "timeout")]
          /\ UNCHANGED accountHealth
     ELSE /\ accountHealth' = IF postClickChecked(page)
                              THEN recordHealth(accountHealth, healthCheckOf(page), now)
                              ELSE accountHealth
          /\ ops' = [ops EXCEPT ![o].pc = "closing", ![o].result = postClickResult(page),
                                ![o].outcome = postClickResult(page).status,
                                \* the log: the settled label and the verdict of the
                                \* second classification
                                ![o].settled = settledLabel(page),
                                ![o].verdicts = IF postClickChecked(page)
                                                THEN Append(@, detectedIssues(page))
                                                ELSE @,
                                ![o].classified =
                                   IF postClickChecked(page)
                                   THEN [any |-> TRUE, text |-> page.text, html |-> page.html,
                                         issues |-> detectedIssues(page)]
                                   ELSE @]
  /\ UNCHANGED <<now, sessionStore, lastFollowAction, http>>

\* A changed resultResponse: the health fields are left out.
resultResponseBare(result, health) ==
  [success |-> result.status \in {"followed", "alreadyfollowed", "privateorpending"},
   status |-> result.status,
   errorDetails |-> result.message,
   healthWarning |-> {},
   accountHealth |-> NoHealth]

\* The response of a returned result (server.js 695-712).
resultResponse(result, health) ==
  [success |-> result.status \in {"followed", "alreadyfollowed", "privateorpending"},
   status |-> result.status,
   errorDetails |-> result.message,
   healthWarning |-> result.healthIssues,
   accountHealth |-> IF result.healthIssues # {} THEN healthSummary(health) ELSE NoHealth]

\* A changed CloseAndRespond: a result of status failed is thrown, and so
\* retried, instead of returned.
CloseAndRespondOrRetry(o, closes) ==
  /\ ops[o].pc = "closing"
  /\ ops' = [ops EXCEPT ![o] =
               IF closes /\ ops[o].result.status # "failed"
               THEN [ops[o] EXCEPT !.pc = "done", !.browser = FALSE, !.context = NoContext,
                                   !.procs = @ - 1,
                                   !.response = resultResponse(ops[o].result, accountHealth)]
               ELSE Throw(ops[o], IF closes THEN ops[o].result.message ELSE "close failed")]
  /\ UNCHANGED <<now, sessionStore, lastFollowAction, accountHealth, http>>

\* followUser has returned: await browser.close() and the response
\* (server.js 689-712).  closes: whether browser.close() resolves.
CloseAndRespond(o, closes) ==
  /\ ops[o].pc = "closing"
  /\ ops' = [ops EXCEPT ![o] =
               IF closes
               THEN [ops[o] EXCEPT !.pc = "done", !.browser = FALSE, !.context = NoContext,
                                   !.procs = @ - 1,
                                   !.response = resultResponse(ops[o].result, accountHealth)]
               ELSE Throw(ops[o], "close failed")]
  /\ UNCHANGED <<now, sessionStore, lastFollowAction, accountHealth, http>>

\* A changed isFatal: the message compared with another string than the one
\* loginToInstagram throws.
isFatalOther(message) == message = "2FA_CHALLENGE"

\* Whether the catch block returns at once (server.js 723).
isFatal(message) == message = "2FA_CHALLENGE_DETECTED"

FatalResponse ==
  [success |-> FALSE, status |-> "failed",
   errorDetails |-> "Two-factor authentication required - manual login needed",
   healthWarning |-> {}, accountHealth |-> NoHealth]

\* A changed ExhaustedResponse: a fixed reason and the health record as it
\* was when the process started.
ExhaustedResponseGeneric(message, health) ==
  [success |-> FALSE, status |-> "failed",
   errorDetails |-> "Maximum retries exceeded",
   healthWarning |-> {},
   accountHealth |-> [isHealthy |-> TRUE, totalBlocks |-> 0, consecutiveErrors |-> 0]]

\* The return of the last attempt's catch block (server.js 733-745).
ExhaustedResponse(message, health) ==
  [success |-> FALSE, status |-> "failed",
   errorDetails |-> IF message = "" THEN "Maximum retries exceeded" ELSE message,
   healthWarning |-> {}, accountHealth |-> healthSummary(health)]

\* The return after the loop (server.js 754-760).
FallbackResponse ==
  [success |-> FALSE, status |-> "failed",
   errorDetails |-> "Unexpected error in retry logic",
   healthWarning |-> {}, accountHealth |-> NoHealth]

\* A changed HandleError: a thrown error counts as a consecutive error of the
\* health record.
HandleErrorCounting(o) ==
  LET closed == [ops[o] EXCEPT !.browser = FALSE, !.context = NoContext,
                               !.procs = IF ops[o].browser THEN @ - 1 ELSE @]
  IN /\ ops[o].pc = "catch"
     /\ ops' = [ops EXCEPT ![o] =
                  IF isFatal(ops[o].error)
                  THEN [closed EXCEPT !.pc = "done", !.response = FatalResponse]
                  ELSE IF ops[o].attempt = MAX_RETRIES - 1
                  THEN [closed EXCEPT !.pc = "done",
                                      !.response = ExhaustedResponse(ops[o].error, accountHealth)]
                  ELSE [closed EXCEPT !.pc = "backoff", !.error = NoValue,
                                      !.sleeps = Append(@, getBackoffDelay(ops[o].attempt)),
                                      !.wakeAt = now + getBackoffDelay(ops[o].attempt)]]
     /\ accountHealth' = [accountHealth EXCEPT !.consecutiveErrors = @ + 1]
     /\ UNCHANGED <<now, sessionStore, lastFollowAction, http>>
\* A changed HandleError: the last attempt's catch block sleeps like the
\* others instead of returning.
HandleErrorSleeping(o) ==
  LET closed == [ops[o] EXCEPT !.browser = FALSE, !.context = NoContext,
                               !.procs = IF ops[o].browser THEN @ - 1 ELSE @]
  IN /\ ops[o].pc = "catch"
     /\ ops' = [ops EXCEPT ![o] =
                  IF isFatal(ops[o].error)
                  THEN [closed EXCEPT !.pc = "done", !.response = FatalResponse]
                  ELSE [closed EXCEPT !.pc = "backoff", !.error = NoValue,
                                      !.sleeps = Append(@, getBackoffDelay(ops[o].attempt)),
                                      !.wakeAt = now + getBackoffDelay(ops[o].attempt)]]
     /\ UNCHANGED <<now, sessionStore, lastFollowAction, accountHealth, http>>

\* The catch block (server.js 714-750).
HandleError(o) ==
  LET closed == [ops[o] EXCEPT !.browser = FALSE, !.context = NoContext,
                               !.procs = IF ops[o].browser THEN @ - 1 ELSE @]
  IN /\ ops[o].pc = "catch"
     /\ ops' = [ops EXCEPT ![o] =
                  IF isFatal(ops[o].error)
                  THEN [closed EXCEPT !.pc = "done", !.response = FatalResponse]
                  ELSE IF ops[o].attempt = MAX_RETRIES - 1
                  THEN [closed EXCEPT !.pc = "done",
                                      !.response = ExhaustedResponse(ops[o].error, accountHealth)]
                  ELSE [closed EXCEPT !.pc = "backoff", !.error = NoValue,
                                      !.sleeps = Append(@, getBackoffDelay(ops[o].attempt)),
                                      !.wakeAt = now + getBackoffDelay(ops[o].attempt)]]
     /\ UNCHANGED <<now, sessionStore, lastFollowAction, accountHealth, http>>

\* A changed BackoffWake: the cooldown is enforced again before the retry.
BackoffWakeCooling(o) ==
  /\ ops[o].pc = "backoff"
  /\ now >= ops[o].wakeAt
  /\ lastFollowAction' = [timestamp |-> now, username |-> ops[o].username]
  /\ ops' = [ops EXCEPT ![o] =
               IF ops[o].attempt + 1 < MAX_RETRIES
               THEN [ops[o] EXCEPT !.pc = "launch", !.attempt = @ + 1,
                                   !.cdCalls = @ + 1, !.cdWrites = @ + 1]
               ELSE [ops[o] EXCEPT !.pc = "done", !.attempt = @ + 1,
                                   !.response = FallbackResponse]]
  /\ UNCHANGED <<now, sessionStore, accountHealth, http>>

\* A changed BackoffWake: the retry goes on with the browser of the attempt
\* that failed instead of launching one.
BackoffWakeReusing(o) ==
  /\ ops[o].pc = "backoff"
  /\ now >= ops[o].wakeAt
  /\ ops' = [ops EXCEPT ![o] =
               IF ops[o].attempt + 1 < MAX_RETRIES
               THEN [ops[o] EXCEPT !.pc = "opened", !.attempt = @ + 1]
               ELSE [ops[o] EXCEPT !.pc = "done", !.attempt = @ + 1,
                                   !.response = FallbackResponse]]
  /\ UNCHANGED <<now, sessionStore, lastFollowAction, accountHealth, http>>

\* The backoff's setTimeout has fired: the loop goes on (server.js 750, 673).
BackoffWake(o) ==
  /\ ops[o].pc = "backoff"
  /\ now >= ops[o].wakeAt
  /\ ops' = [ops EXCEPT ![o] =
               IF ops[o].attempt + 1 < MAX_RETRIES
               THEN [ops[o] EXCEPT !.pc = "launch", !.attempt = @ + 1]
               ELSE [ops[o] EXCEPT !.pc = "done", !.attempt = @ + 1,
                                   !.response = FallbackResponse]]
  /\ UNCHANGED <<now, sessionStore, lastFollowAction, accountHealth, http>>

(***************************************************************************)
(* The request layer (server.js 239-312, 771-893).  A username of a        *)
(* request body is {kind, chars}: the JSON type of the field ("undefined"  *)
(* when the body has none) and, for a string, its characters.              *)
(***************************************************************************)
UpperCase ==
  <<"A", "B", "C", "D", "E", "F", "G", "H", "I", "J", "K", "L", "M",
    "N", "O", "P", "Q", "R", "S", "T", "U", "V", "W", "X", "Y", "Z">>

LowerCase ==
  <<"a", "b", "c", "d", "e", "f", "g", "h", "i", "j", "k", "l", "m",
    "n", "o", "p", "q", "r", "s", "t", "u", "v", "w", "x", "y", "z">>

Digits == {"0", "1", "2", "3", "4", "5", "6", "7", "8", "9"}

WhiteSpace == {" ", "\t", "\n"}

\* String.prototype.trim
trim(chars) ==
  LET kept == {i \in 1..Len(chars) : chars[i] \notin WhiteSpace}
  IN IF kept = {} THEN <<>>
     ELSE SubSeq(chars, CHOOSE i \in kept : \A j \in kept : i <= j,
                        CHOOSE i \in kept : \A j \in kept : i >= j)

\* String.prototype.toLowerCase
toLowerCase(chars) ==
  [i \in 1..Len(chars) |->
     IF \E k \in 1..Len(UpperCase) : UpperCase[k] = chars[i]
     THEN LowerCase[CHOOSE k \in 1..Len(UpperCase) : UpperCase[k] = chars[i]]
     ELSE chars[i]]

\* /^[a-z0-9._]{1,30}$/.test(chars)
matchesUsernamePattern(chars) ==
  /\ Len(chars) >= 1 /\ Len(chars) <= 30
  /\ \A i \in 1..Len(chars) :
        \/ \E k \in 1..Len(LowerCase) : LowerCase[k] = chars[i]
        \/ chars[i] \in Digits \cup {".", "_"}

\* A changed sanitizeUsername: the pattern is not tested.
sanitizeUsernameRaw(username) ==
  IF username.kind # "string" \/ username.chars = <<>> THEN [ok |-> FALSE, value |-> <<>>]
  ELSE [ok |-> TRUE, value |-> toLowerCase(trim(username.chars))]

\* sanitizeUsername: ok is false where the code returns null.
sanitizeUsername(username) ==
  IF username.kind # "string" \/ username.chars = <<>> THEN [ok |-> FALSE, value |-> <<>>]
  ELSE LET sanitized == toLowerCase(trim(username.chars))
       IN IF ~matchesUsernamePattern(sanitized) THEN [ok |-> FALSE, value |-> <<>>]
          ELSE [ok |-> TRUE, value |-> sanitized]

\* A changed checkRateLimit: the per-address count is compared after the
\* increment.
checkRateLimitLate(h, ip, t) ==
  LET reset == t > h.globalResetAt
      count == IF reset THEN 0 ELSE h.globalRequestCount
      resetAt == IF reset THEN t + RATE_LIMIT_WINDOW_MS ELSE h.globalResetAt
      clientData == h.rateLimitStore[ip]
      g == [h EXCEPT !.globalRequestCount = count, !.globalResetAt = resetAt]
  IN IF count >= GLOBAL_RATE_LIMIT_MAX
       THEN [allowed |-> FALSE, message |-> "Global rate limit exceeded", http |-> g]
     ELSE IF clientData = NoClient \/ t > clientData.resetAt
       THEN [allowed |-> TRUE, message |-> NoValue,
             http |-> [g EXCEPT !.rateLimitStore[ip] =
                                    [count |-> 1, resetAt |-> t + RATE_LIMIT_WINDOW_MS],
                                !.globalRequestCount = @ + 1]]
     ELSE IF clientData.count > RATE_LIMIT_MAX_REQUESTS
       THEN [allowed |-> FALSE, message |-> "Rate limit exceeded for IP", http |-> g]
     ELSE [allowed |-> TRUE, message |-> NoValue,
           http |-> [g EXCEPT !.rateLimitStore[ip].count = @ + 1,
                              !.globalRequestCount = @ + 1]]

\* checkRateLimit at time t for the address ip: the verdict and the counters
\* as the call leaves them.
checkRateLimit(h, ip, t) ==
  LET reset == t > h.globalResetAt
      count == IF reset THEN 0 ELSE h.globalRequestCount
      resetAt == IF reset THEN t + RATE_LIMIT_WINDOW_MS ELSE h.globalResetAt
      clientData == h.rateLimitStore[ip]
      g == [h EXCEPT !.globalRequestCount = count, !.globalResetAt = resetAt]
  IN IF count >= GLOBAL_RATE_LIMIT_MAX
       THEN [allowed |-> FALSE, message |-> "Global rate limit exceeded", http |-> g]
     ELSE IF clientData = NoClient \/ t > clientData.resetAt
       THEN [allowed |-> TRUE, message |-> NoValue,
             http |-> [g EXCEPT !.rateLimitStore[ip] =
                                    [count |-> 1, resetAt |-> t + RATE_LIMIT_WINDOW_MS],
                                !.globalRequestCount = @ + 1]]
     ELSE IF clientData.count >= RATE_LIMIT_MAX_REQUESTS
       THEN [allowed |-> FALSE, message |-> "Rate limit exceeded for IP", http |-> g]
     ELSE [allowed |-> TRUE, message |-> NoValue,
           http |-> [g EXCEPT !.rateLimitStore[ip].count = @ + 1,
                              !.globalRequestCount = @ + 1]]

\* A reply of a route that ends the request without the engine.
Reply(route, code, message) ==
  [NoReply EXCEPT !.route = route, !.code = code, !.message = message]
\* No Authorization header (undefined), or an empty one: both are falsy.
NoHeader == <<>>

\* process.env.BEARER_TOKEN, a fixed string (server.js 15; at least 32
\* characters in a process that starts, 921-924; shorter here).
BEARER_TOKEN == <<"s", "3", "c", "r", "3", "t">>

\* The header 'Bearer ' + token.
Bearer(token) == <<"B", "e", "a", "r", "e", "r", " ">> \o token

\* validateBearerToken (server.js 256-273): the header starts with 'Bearer ',
\* the rest has the length of BEARER_TOKEN, and no position differs (the
\* XOR of two char codes is zero iff they are equal).
validateBearerToken(authHeader) ==
  IF authHeader = <<>>
       \/ ~(Len(authHeader) >= 7
              /\ SubSeq(authHeader, 1, 7) = <<"B", "e", "a", "r", "e", "r", " ">>)
  THEN FALSE
  ELSE LET token == SubSeq(authHeader, 8, Len(authHeader))
       IN IF Len(token) # Len(BEARER_TOKEN) THEN FALSE
          ELSE {i \in 1..Len(token) : token[i] # BEARER_TOKEN[i]} = {}

\* A body express.json() cannot parse (server.js 8): the request ends in
\* Express's error handling with 400 before any middleware of the route.
BodyMalformed == [kind |-> "malformed", chars |-> <<>>]

\* POST /follow up to the first suspension of automateFollow (server.js 8,
\* 851-871 with the two middlewares, 771-804): authHeader is the request's
\* Authorization header, ip its address, username the field of its JSON body
\* (or the body that does not parse), num the draw of Math.random() in
\* enforceCooldown.
PostFollow(o, ip, authHeader, username, num) ==
  LET rateLimitResult == checkRateLimit(http, ip, now)
      sanitizedUsername == sanitizeUsername(username)
  IN IF username = BodyMalformed
     THEN /\ http' = [http EXCEPT !.body = username, !.auth = authHeader, !.reply =
                        Reply("follow", 400, "Bad Request")]
          /\ UNCHANGED <<now, sessionStore, lastFollowAction, accountHealth, ops>>
     ELSE IF ~validateBearerToken(authHeader)
     THEN /\ http' = [http EXCEPT !.body = username, !.auth = authHeader, !.reply =
                        Reply("follow", 401, "Invalid or missing Bearer token")]
          /\ UNCHANGED <<now, sessionStore, lastFollowAction, accountHealth, ops>>
     ELSE IF ~rateLimitResult.allowed
     THEN /\ http' = [rateLimitResult.http EXCEPT !.body = username, !.auth = authHeader,
                                                 !.reply =
                        Reply("follow", 429, rateLimitResult.message)]
          /\ UNCHANGED <<now, sessionStore, lastFollowAction, accountHealth, ops>>
     ELSE IF ~sanitizedUsername.ok
     THEN /\ http' = [rateLimitResult.http EXCEPT !.body = username, !.auth = authHeader,
                                                 !.reply =
                        Reply("follow", 400, "Invalid username format")]
          /\ UNCHANGED <<now, sessionStore, lastFollowAction, accountHealth, ops>>
     ELSE /\ http' = [rateLimitResult.http EXCEPT !.body = username, !.auth = authHeader,
                                                 !.reply = NoReply]
          /\ StartFollow(o, sanitizedUsername.value, num)

\* A changed Respond: 200 whenever the engine returned a response.
RespondAlwaysOk(o) ==
  /\ ops[o].pc = "done"
  /\ ops' = [ops EXCEPT ![o].pc = "answered", ![o].httpStatus = 200]
  /\ UNCHANGED <<now, sessionStore, lastFollowAction, accountHealth, http>>

\* POST /follow after automateFollow has resolved (server.js 873-878).
Respond(o) ==
  /\ ops[o].pc = "done"
  /\ ops' = [ops EXCEPT ![o].pc = "answered",
                        ![o].httpStatus = IF ops[o].response.success THEN 200 ELSE 500]
  /\ UNCHANGED <<now, sessionStore, lastFollowAction, accountHealth, http>>

\* A changed GetAccountHealth: the session is validated, and so cleared when
\* it has expired, before it is reported.
GetAccountHealthValidating(authorized) ==
  LET valid == isSessionValid(sessionStore, now)
      sessionExpiry == (SESSION_DURATION_MS - (now - sessionStore.createdAt)) \div 60000
  IN /\ http' = [http EXCEPT !.reply =
                    IF ~authorized
                    THEN Reply("account-health", 401, "Invalid or missing Bearer token")
                    ELSE [route |-> "account-health", code |-> 200, message |-> NoValue,
                          isActive |-> valid,
                          expiresInMinutes |-> IF valid THEN sessionExpiry ELSE 0,
                          loginCount |-> IF valid THEN sessionStore.loginCount ELSE 0]]
     /\ sessionStore' = IF authorized THEN sessionAfterValidation(sessionStore, now)
                        ELSE sessionStore
     /\ UNCHANGED <<now, lastFollowAction, accountHealth, ops>>

\* GET /account-health (server.js 819-845, with authMiddleware 771-784).
GetAccountHealth(authorized) ==
  LET stored == sessionStore # NoSession
      sessionExpiry == (SESSION_DURATION_MS - (now - sessionStore.createdAt)) \div 60000
  IN /\ http' = [http EXCEPT !.reply =
                    IF ~authorized
                    THEN Reply("account-health", 401, "Invalid or missing Bearer token")
                    ELSE [route |-> "account-health", code |-> 200, message |-> NoValue,
                          isActive |-> stored,
                          expiresInMinutes |-> IF stored THEN sessionExpiry ELSE 0,
                          loginCount |-> IF stored THEN sessionStore.loginCount ELSE 0]]
     /\ UNCHANGED <<now, sessionStore, lastFollowAction, accountHealth, ops>>

(***************************************************************************)
(* Time.                                                                   *)
(***************************************************************************)
\* The instants at which a pending timer is due.
Deadlines == {ops[o].wakeAt : o \in {p \in Ops : ops[p].pc \in {"cooldown", "backoff"}}}

\* The clock reaches t.
AdvanceTime(t, horizon) ==
  /\ t > now
  /\ t <= StartTime + horizon
  /\ now' = t
  /\ UNCHANGED <<sessionStore, lastFollowAction, accountHealth, ops, http>>

(***************************************************************************)
(* The environment: the requests, and the pages the site serves.           *)
(***************************************************************************)
Users == {<<"a", "l", "i", "c", "e">>, <<"b", "o", "b">>}

\* The target of the request in slot o.
Target(o) == IF o % 2 = 1 THEN <<"a", "l", "i", "c", "e">> ELSE <<"b", "o", "b">>

\* The username fields of the request bodies.
Repeat(c, n) == [i \in 1..n |-> c]

Str(chars) == [kind |-> "string", chars |-> chars]

UsernameMissing == [kind |-> "undefined", chars |-> <<>>]
UsernameNumber == [kind |-> "number", chars |-> <<"4", "2">>]

ValidUsernames ==
  {Str(<<"a", "l", "i", "c", "e">>),
   Str(<<" ", "B", "o", "b", "_", "1", ".", " ">>),
   Str(<<"7">>),
   Str(Repeat("a", 30)),
   Str(<<" ">> \o Repeat("Z", 30) \o <<"\n">>)}

InvalidUsernames ==
  {UsernameMissing, UsernameNumber, Str(<<>>), Str(<<" ", " ">>),
   Str(<<"a", " ", "b">>), Str(<<"a", "!">>), Str(<<"a", "-", "b">>),
   Str(Repeat("a", 31))}

Clean == {}

HomeLoggedIn == Page(Clean, {}, TRUE, "/", <<>>)
HomeLoginWall == Page(Clean, {}, FALSE, "/accounts/login/", <<>>)
HomePages == {HomeLoggedIn, HomeLoginWall}

LoginDone == Page(Clean, {}, TRUE, "/", <<Button("not now", "", FALSE)>>)
LoginTwoFactor == Page({"two-factor", "security code"}, {}, FALSE, "/accounts/login/two_factor", <<>>)
LoginRejected == Page(Clean, {}, FALSE, "/accounts/login/", <<>>)
LoginPages == {LoginDone, LoginTwoFactor, LoginRejected}

Profile(text, buttons) == Page(text, {}, TRUE, "/target/", buttons)

ProfileFollow == Profile(Clean, <<Button("message", "", TRUE), Button("follow", "", TRUE)>>)
ProfileFollowBack == Profile(Clean, <<Button("follow back", "", TRUE)>>)
ProfileFollowing == Profile(Clean, <<Button("following", "", TRUE)>>)
ProfileUnfollow == Profile(Clean, <<Button("unfollow", "unfollow user", TRUE)>>)
ProfileRequested == Profile(Clean, <<Button("requested", "", TRUE)>>)
ProfileNotFound == Profile({"sorry, this page isn't available"}, <<>>)
ProfileBlocked == Profile({"user not found"}, <<>>)
ProfileNoButton == Profile(Clean, <<Button("message", "", TRUE)>>)
ProfileUnknown == Profile(Clean, <<Button("", "follow user", TRUE)>>)
ProfileActionBlocked == Profile({"action blocked", "try again later"},
                                <<Button("follow", "", TRUE)>>)

\* Pages on which more than one gate of followUser would fire.
ProfileGoneAndBanned == Profile({"page not found", "user not found", "try again later"},
                                <<Button("follow", "", TRUE)>>)
ProfileGoneOrHidden == Profile({"couldn't find", "user not found"},
                               <<Button("following", "", TRUE)>>)
ProfileHiddenWithButton == Profile({"no posts yet", "when"}, <<Button("follow", "", TRUE)>>)

ProfilePages ==
  {ProfileFollow, ProfileFollowBack, ProfileFollowing, ProfileUnfollow, ProfileRequested, ProfileNotFound,
   ProfileBlocked, ProfileNoButton, ProfileUnknown, ProfileActionBlocked,
   ProfileGoneAndBanned, ProfileGoneOrHidden, ProfileHiddenWithButton}

SettledFollowing == Profile(Clean, <<Button("following", "", TRUE)>>)
SettledUnfollow == Profile(Clean, <<Button("unfollow", "unfollow user", TRUE)>>)
SettledRequested == Profile(Clean, <<Button("requested", "", TRUE)>>)
SettledUnchanged == Profile(Clean, <<Button("follow", "", TRUE)>>)
SettledButBlocked == Profile({"try again later"}, <<Button("following", "", TRUE)>>)

\* The click brought up a block notice and left the control as it was.
SettledBlockedUnchanged == Profile({"action blocked"}, <<Button("follow", "", TRUE)>>)

SettledPages ==
  {SettledFollowing, SettledUnfollow, SettledRequested, SettledUnchanged, SettledButBlocked,
   SettledBlockedUnchanged}

(***************************************************************************)
(* The retry controller: one operation against every behaviour of the      *)
(* browser and of the site.  The clock moves from timer to timer.          *)
(***************************************************************************)
Attempt(o) ==
  \/ \E outcome \in {"launchThrows", "contextThrows", "ok"} : LaunchBrowser(o, outcome)
  \/ \E outcome \in {"cookiesThrow", "pageThrows", "ok"} : OpenPage(o, outcome)
  \/ \E throws \in BOOLEAN, page \in HomePages : CheckRestoredLiveness(o, throws, page)
  \/ \E outcome \in {"throws", "ok", "dismissThrows"}, page \in LoginPages :
       FreshLogin(o, outcome, page)
  \/ \E throws \in BOOLEAN, page \in ProfilePages : FollowPre(o, throws, page)
  \/ \E page \in ProfilePages : FollowPreRejects(o, page)
  \/ \E throws \in BOOLEAN, page \in SettledPages : FollowPost(o, throws, page)
  \/ \E closes \in BOOLEAN : CloseAndRespond(o, closes)
  \/ HandleError(o)
  \/ BackoffWake(o)

Next ==
  \/ StartFollow(1, Target(1), 0) /\ UNCHANGED http
  \/ Attempt(1)
  \/ \E t \in Deadlines : AdvanceTime(t, MAX_COOLDOWN_MS)

Spec == Init /\ [][Next]_vars

(***************************************************************************)
(* The cooldown enforcer: concurrent requests, each with its own draw of   *)
(* Math.random(), on a host whose browser cannot be launched, so that      *)
(* every operation runs through its retries.  Time passes by itself on     *)
(* the grid of Tick; a timer may fire late.                                *)
(***************************************************************************)
NextCooldown ==
  \/ \E o \in Ops, num \in RandNums : StartFollow(o, Target(o), num) /\ UNCHANGED http
  \/ \E o \in Ops : CooldownWake(o)
  \/ \E o \in Ops : LaunchBrowser(o, "launchThrows")
  \/ \E o \in Ops : HandleError(o)
  \/ \E o \in Ops : BackoffWake(o)
  \/ AdvanceTime(now + Tick, CooldownHorizon)

SpecCooldown == Init /\ [][NextCooldown]_vars

(***************************************************************************)
(* The session store: two concurrent operations with a browser that works, *)
(* a site that may or may not accept the login and a restored session, and *)
(* a clock that also runs through a whole session lifetime.                *)
(***************************************************************************)
SessionOps == 1..2

\* The instants the clock may reach next: within SessionSlack after StartTime
\* or after a whole number of session lifetimes.
SessionTimes ==
  {t \in {now + Tick, now + SESSION_DURATION_MS} :
     (t - StartTime) % SESSION_DURATION_MS <= SessionSlack}

NextSession ==
  \/ \E o \in SessionOps : StartFollow(o, Target(o), 0) /\ UNCHANGED http
  \/ \E o \in SessionOps : CooldownWake(o)
  \/ \E o \in SessionOps : LaunchBrowser(o, "ok")
  \/ \E o \in SessionOps : OpenPage(o, "ok")
  \/ \E o \in SessionOps, page \in HomePages : CheckRestoredLiveness(o, FALSE, page)
  \/ \E o \in SessionOps, page \in LoginPages : FreshLogin(o, "ok", page)
  \/ \E o \in SessionOps : FollowPre(o, FALSE, ProfileFollowing)
  \/ \E o \in SessionOps : CloseAndRespond(o, TRUE)
  \/ \E o \in SessionOps : HandleError(o)
  \/ \E o \in SessionOps : BackoffWake(o)
  \/ \E t \in SessionTimes : AdvanceTime(t, SESSION_DURATION_MS + SessionSlack)

SpecSession == Init /\ [][NextSession]_vars

(***************************************************************************)
(* The health monitor over a long run of the server: the requests come one *)
(* after the other, each when the one before has been answered; the        *)
(* browser works and the site accepts the login; the profile is already    *)
(* followed, can be followed, or shows a block message.                    *)
(***************************************************************************)
\* The response of slot o has been sent and the next request arrives
\* (server.js 851-893).
NextRequest(o) ==
  /\ ops[o].pc = "done"
  /\ ops[o].served + 1 < MaxRequests
  /\ ops' = [ops EXCEPT ![o] = [IdleOp EXCEPT !.served = ops[o].served + 1]]
  /\ UNCHANGED <<now, sessionStore, lastFollowAction, accountHealth, http>>

HealthPages == {ProfileFollowing, ProfileFollow, ProfileActionBlocked}

NextHealth ==
  \/ StartFollow(1, Target(1), 0) /\ UNCHANGED http
  \/ CooldownWake(1)
  \/ LaunchBrowser(1, "ok")
  \/ OpenPage(1, "ok")
  \/ CheckRestoredLiveness(1, FALSE, HomeLoggedIn)
  \/ FreshLogin(1, "ok", LoginDone)
  \/ \E page \in HealthPages : FollowPre(1, FALSE, page)
  \/ FollowPost(1, FALSE, SettledFollowing)
  \/ CloseAndRespond(1, TRUE)
  \/ NextRequest(1)
  \/ \E t \in Deadlines : AdvanceTime(t, MaxRequests * MAX_COOLDOWN_MS)

SpecHealth == Init /\ [][NextHealth]_vars

(***************************************************************************)
(* The status route: GET /account-health at any moment of one follow       *)
(* operation and of the day after it.                                      *)
(***************************************************************************)
NextStatus ==
  \/ StartFollow(1, Target(1), 0) /\ UNCHANGED http
  \/ LaunchBrowser(1, "ok")
  \/ OpenPage(1, "ok")
  \/ \E page \in LoginPages : FreshLogin(1, "ok", page)
  \/ \E page \in HealthPages : FollowPre(1, FALSE, page)
  \/ FollowPost(1, FALSE, SettledFollowing)
  \/ CloseAndRespond(1, TRUE)
  \/ HandleError(1)
  \/ BackoffWake(1)
  \/ \E authorized \in BOOLEAN : GetAccountHealth(authorized)
  \/ \E t \in SessionTimes : AdvanceTime(t, SESSION_DURATION_MS + SessionSlack)

SpecStatus == Init /\ [][NextStatus]_vars

(***************************************************************************)
(* Termination: two requests, one after the other, so that the second      *)
(* waits for its cooldown; every step of the browser and of the site       *)
(* resolves or rejects, and every timer fires.                             *)
(***************************************************************************)
\* The pending step of operation o settles, one way or the other.
AttemptLive(o) ==
  \/ CooldownWake(o)
  \/ \E outcome \in {"launchThrows", "ok"} : LaunchBrowser(o, outcome)
  \/ OpenPage(o, "ok")
  \/ CheckRestoredLiveness(o, FALSE, HomeLoggedIn)
  \/ \E page \in {LoginDone, LoginTwoFactor} : FreshLogin(o, "ok", page)
  \/ \E throws \in BOOLEAN : FollowPre(o, throws, ProfileFollow)
  \/ \E throws \in BOOLEAN : FollowPost(o, throws, SettledFollowing)
  \/ \E closes \in BOOLEAN : CloseAndRespond(o, closes)
  \/ HandleError(o)
  \/ BackoffWake(o)

TimerFires == \E t \in Deadlines : AdvanceTime(t, LiveHorizon)

NextLive ==
  \/ StartFollow(1, Target(1), 0) /\ UNCHANGED http
  \/ AttemptLive(1)
  \/ ops[1].served = 0 /\ NextRequest(1)
  \/ TimerFires

SpecLive == Init /\ [][NextLive]_vars /\ WF_vars(AttemptLive(1)) /\ WF_vars(TimerFires)

(***************************************************************************)
(* The rate limiter: requests from several addresses, numbered in the      *)
(* order in which they first send, none of which gets to the engine (the   *)
(* token is wrong or the body has no username).  The clock runs through    *)
(* the ends of the windows.                                                *)
(***************************************************************************)
\* The instants at which requests arrive: the start of the process and the
\* first millisecond after each window that began with the one before.
RateTimes == {StartTime + k * (RATE_LIMIT_WINDOW_MS + 1) : k \in 0..RateWindows}

NextRate ==
  \/ \E ip \in Ips, authHeader \in {NoHeader, Bearer(BEARER_TOKEN)} :
       /\ \A other \in Ips : other < ip => http.rateLimitStore[other] # NoClient
       /\ PostFollow(1, ip, authHeader, UsernameMissing, 0)
  \/ \E t \in RateTimes : AdvanceTime(t, RateWindows * (RATE_LIMIT_WINDOW_MS + 1))

SpecRate == Init /\ [][NextRate]_vars

(***************************************************************************)
(* The follow route: requests of one address with any username field and   *)
(* a right or wrong token; the one that gets to the engine finds a browser *)
(* that works, a site that accepts the login, and any profile.             *)
(***************************************************************************)
NextHttp ==
  \/ \E authHeader \in {NoHeader, Bearer(BEARER_TOKEN)},
        username \in ValidUsernames \cup InvalidUsernames :
       PostFollow(1, 1, authHeader, username, 0)
  \/ LaunchBrowser(1, "ok")
  \/ OpenPage(1, "ok")
  \/ FreshLogin(1, "ok", LoginDone)
  \/ \E page \in ProfilePages : FollowPre(1, FALSE, page)
  \/ \E page \in SettledPages : FollowPost(1, FALSE, page)
  \/ CloseAndRespond(1, TRUE)
  \/ Respond(1)

SpecHttp == Init /\ [][NextHttp]_vars

(***************************************************************************)
(* The invalidation of a session: two concurrent operations, a site that   *)
(* accepts the login and then shows the login wall to the restored         *)
(* session, and a login whose last step (the dismissal of the prompts) may *)
(* reject after the session has been saved, so that the operation retries. *)
(***************************************************************************)
NextInvalidate ==
  \/ \E o \in SessionOps : StartFollow(o, Target(o), 0) /\ UNCHANGED http
  \/ \E o \in SessionOps : CooldownWake(o)
  \/ \E o \in SessionOps : LaunchBrowser(o, "ok")
  \/ \E o \in SessionOps : OpenPage(o, "ok")
  \/ \E o \in SessionOps : CheckRestoredLiveness(o, FALSE, HomeLoginWall)
  \/ \E o \in SessionOps, outcome \in {"ok", "dismissThrows"} : FreshLogin(o, outcome, LoginDone)
  \/ \E o \in SessionOps : FollowPre(o, FALSE, ProfileFollowing)
  \/ \E o \in SessionOps : CloseAndRespond(o, TRUE)
  \/ \E o \in SessionOps : HandleError(o)
  \/ \E o \in SessionOps : BackoffWake(o)
  \/ \E t \in Deadlines : AdvanceTime(t, MIN_COOLDOWN_MS)

SpecInvalidate == Init /\ [][NextInvalidate]_vars

(***************************************************************************)
(* The session store when follow operations do not overlap: SerialRequests *)
(* requests, each arriving after the one before has been answered; the     *)
(* site accepts the login, a restored session may be dead, the dismissal   *)
(* of the prompts may reject after the session has been saved, and a       *)
(* session lifetime (or a millisecond more) may pass at any moment.        *)
(***************************************************************************)
SerialTimes == Deadlines \cup {now + SESSION_DURATION_MS, now + SESSION_DURATION_MS + 1}

NextSerial ==
  \/ StartFollow(1, Target(1), 0) /\ UNCHANGED http
  \/ CooldownWake(1)
  \/ LaunchBrowser(1, "ok")
  \/ OpenPage(1, "ok")
  \/ \E page \in HomePages : CheckRestoredLiveness(1, FALSE, page)
  \/ \E outcome \in {"ok", "dismissThrows"} : FreshLogin(1, outcome, LoginDone)
  \/ FollowPre(1, FALSE, ProfileFollowing)
  \/ CloseAndRespond(1, TRUE)
  \/ HandleError(1)
  \/ BackoffWake(1)
  \/ ops[1].served + 1 < SerialRequests /\ NextRequest(1)
  \/ \E t \in SerialTimes : AdvanceTime(t, SESSION_DURATION_MS + LiveHorizon)

SpecSerial == Init /\ [][NextSerial]_vars

(***************************************************************************)
(* The health classification: one operation with a browser that works and  *)
(* a site that accepts the login; the profile and the settled page carry   *)
(* any of the texts below, with or without a reCAPTCHA in the markup; the  *)
(* teardown may reject, so that the same content can be met again in the   *)
(* next attempt.                                                           *)
(***************************************************************************)
\* The phrases the six patterns look for.
BlockPhrases ==
  {"action blocked", "we restrict certain activity", "this action was blocked",
   "try again later", "please wait a few minutes", "unusual activity", "spam",
   "automated behavior", "too many requests", "slow down", "your account", "warning",
   "violation", "security check", "prove you're not a robot"}

\* No phrase, each phrase alone, pairs within and across the patterns, and all.
ClassifyTexts ==
  {Clean, BlockPhrases} \cup {{p} : p \in BlockPhrases}
    \cup {{"your account", "warning"}, {"your account", "violation"},
          {"warning", "violation"}, {"action blocked", "try again later"},
          {"spam", "slow down"}}

ClassifyPages ==
  {Page(text, html, TRUE, "/target/", <<Button("follow", "", TRUE)>>) :
     text \in ClassifyTexts, html \in {{}, {"recaptcha"}}}

ClassifySettled ==
  {Page(text, html, TRUE, "/target/", <<Button("following", "", TRUE)>>) :
     text \in {Clean, {"warning"}, {"try again later"}}, html \in {{}, {"recaptcha"}}}

NextClassify ==
  \/ StartFollow(1, Target(1), 0) /\ UNCHANGED http
  \/ LaunchBrowser(1, "ok")
  \/ OpenPage(1, "ok")
  \/ CheckRestoredLiveness(1, FALSE, HomeLoggedIn)
  \/ FreshLogin(1, "ok", LoginDone)
  \/ \E page \in ClassifyPages : FollowPre(1, FALSE, page)
  \/ \E page \in ClassifySettled : FollowPost(1, FALSE, page)
  \/ \E closes \in BOOLEAN : CloseAndRespond(1, closes)
  \/ HandleError(1)
  \/ BackoffWake(1)
  \/ \E t \in Deadlines : AdvanceTime(t, MAX_COOLDOWN_MS)

SpecClassify == Init /\ [][NextClassify]_vars

(***************************************************************************)
(* Authentication: requests of two addresses with any Authorization header *)
(* and a body that has no username, a valid one, or does not parse; the    *)
(* request that gets to the engine finds a host whose browser cannot be    *)
(* launched.                                                               *)
(***************************************************************************)
\* Headers: none, the right one, and wrong ones by scheme, case, length and
\* content.
AuthHeaders ==
  {NoHeader, Bearer(BEARER_TOKEN), BEARER_TOKEN, Bearer(<<>>),
   <<"b", "e", "a", "r", "e", "r", " ">> \o BEARER_TOKEN,
   <<"B", "a", "s", "i", "c", " ">> \o BEARER_TOKEN,
   Bearer(SubSeq(BEARER_TOKEN, 1, Len(BEARER_TOKEN) - 1)),
   Bearer(BEARER_TOKEN \o <<"x">>),
   Bearer([BEARER_TOKEN EXCEPT ![Len(BEARER_TOKEN)] = "T"]),
   Bearer(<<" ">> \o BEARER_TOKEN)}

NextAuth ==
  \/ \E ip \in 1..2, authHeader \in AuthHeaders,
        username \in {UsernameMissing, BodyMalformed, Str(Target(1))} :
       PostFollow(1, ip, authHeader, username, 0)
  \/ LaunchBrowser(1, "launchThrows")
  \/ HandleError(1)
  \/ BackoffWake(1)
  \/ Respond(1)
  \/ \E t \in Deadlines : AdvanceTime(t, MAX_COOLDOWN_MS)

SpecAuth == Init /\ [][NextAuth]_vars

(***************************************************************************)
(* Properties of the cooldown enforcer (SpecCooldown).                     *)
(***************************************************************************)
\* A call of enforceCooldown is in scope: made and not yet followed by the
\* first launch.
InCooldownScope(op) == op.pc \in {"cooldown", "launch"} /\ op.launches = 0 /\ op.cdCalls > 0

\* C1: under every interleaving of follow operations, any two consecutive
\* writes of the cooldown record are at least MIN_COOLDOWN_MS apart (no two
\* callers read lastFollowAction.timestamp before either of them writes it).
C1_CooldownSpacing ==
  [][(lastFollowAction' # lastFollowAction /\ lastFollowAction.timestamp # 0)
       => lastFollowAction'.timestamp - lastFollowAction.timestamp >= MIN_COOLDOWN_MS]_vars

\* What a call that overlaps no other call does up to its setTimeout or its end.
C2_StartsRight(o) ==
  (ops[o].pc = "idle" /\ ops'[o].pc # "idle" /\ ~ops'[o].cdOverlap) =>
     LET op == ops'[o]
         written == [timestamp |-> now, username |-> op.username]
     IN IF lastFollowAction.timestamp = 0
        THEN op.pc = "launch" /\ lastFollowAction' = written
        ELSE /\ op.cdElapsed = now - lastFollowAction.timestamp
             /\ IF op.cdElapsed < op.cdRequired
                THEN /\ op.pc = "cooldown"
                     /\ op.cdWait = op.cdRequired - op.cdElapsed
                     /\ op.wakeAt = now + op.cdWait
                     /\ lastFollowAction' = lastFollowAction
                ELSE /\ op.pc = "launch"
                     /\ lastFollowAction' = written
                     /\ now >= lastFollowAction.timestamp + op.cdRequired

\* What a call that overlaps no other call does when its setTimeout has fired.
C2_ReturnsRight(o) ==
  (ops[o].pc = "cooldown" /\ ops'[o].pc # "cooldown" /\ ~ops[o].cdOverlap) =>
     /\ lastFollowAction.timestamp = ops[o].cdPrev
     /\ now >= lastFollowAction.timestamp + ops[o].cdRequired
     /\ now >= ops[o].wakeAt
     /\ lastFollowAction' = [timestamp |-> now, username |-> ops[o].username]

\* C2: a call of enforceCooldown that overlaps no other call behaves as
\* follows.  The very first call writes {now, target} and returns without
\* waiting.  A later call draws required, has elapsed = now - timestamp of the
\* previous call's record, waits exactly required - elapsed when elapsed <
\* required and does not wait otherwise, returns no earlier than required
\* after the previous record's timestamp, and on return overwrites the record
\* with the time of return and its own target.
C2_SerialCooldown ==
  [][\A o \in Ops : C2_StartsRight(o) /\ C2_ReturnsRight(o)]_vars

\* A call that found a record, overlapped no other call, waited past its timer
\* and has returned.
C2_Witness ==
  \E o \in Ops :
     /\ ops[o].pc = "launch" /\ InCooldownScope(ops[o])
     /\ ~ops[o].cdFirst /\ ~ops[o].cdOverlap /\ ops[o].cdWait > 0
     /\ lastFollowAction = [timestamp |-> now, username |-> ops[o].username]
     /\ now > ops[o].wakeAt

\* C3 as stated: every required interval drawn by a call after the first lies
\* in [MIN_COOLDOWN_MS, MAX_COOLDOWN_MS).
C3_HalfOpenRange ==
  \A o \in Ops :
     (InCooldownScope(ops[o]) /\ ~ops[o].cdFirst) =>
        (MIN_COOLDOWN_MS <= ops[o].cdRequired /\ ops[o].cdRequired < MAX_COOLDOWN_MS)

\* C3 as amended: every required interval drawn by a call after the first lies
\* in the closed range [MIN_COOLDOWN_MS, MAX_COOLDOWN_MS].
C3_ClosedRange ==
  \A o \in Ops :
     (InCooldownScope(ops[o]) /\ ~ops[o].cdFirst) =>
        (MIN_COOLDOWN_MS <= ops[o].cdRequired /\ ops[o].cdRequired <= MAX_COOLDOWN_MS)

\* Two calls in scope at once whose draws differ: one at each end of the range.
C3_Witness ==
  \E o, p \in Ops :
     /\ InCooldownScope(ops[o]) /\ ~ops[o].cdFirst /\ ops[o].cdRequired = MIN_COOLDOWN_MS
     /\ InCooldownScope(ops[p]) /\ ~ops[p].cdFirst /\ ops[p].cdRequired = MAX_COOLDOWN_MS

\* C7: within one automateFollow call enforceCooldown is invoked exactly once,
\* before the first launch, and never again before a retry; the cooldown
\* record is written exactly once per operation.
C7_CooldownOnce ==
  \A o \in Ops :
     /\ ops[o].cdCalls <= 1
     /\ ops[o].cdWrites <= ops[o].cdCalls
     /\ ops[o].launches > 0 => (ops[o].cdCalls = 1 /\ ops[o].cdWrites = 1)
     /\ ops[o].pc = "cooldown" => (ops[o].cdWrites = 0 /\ ops[o].launches = 0)

\* An operation that had to wait for its cooldown and has used all its attempts.
C7_Witness ==
  \E o \in Ops :
     /\ o # 1 /\ ops[o].pc = "done" /\ ops[o].launches = MAX_RETRIES
     /\ Len(ops[o].sleeps) = MAX_RETRIES - 1 /\ ops[o].cdWrites = 1
     /\ lastFollowAction.username = ops[o].username

(***************************************************************************)
(* Properties of the session store (SpecSession).                          *)
(***************************************************************************)
\* C4: isSessionValid returns true iff a session exists and now - createdAt <
\* SESSION_DURATION_MS; a session of age SESSION_DURATION_MS or more (exactly
\* SESSION_DURATION_MS included) is reported invalid and cleared, and a session
\* reported valid is left unchanged.  Stated on the two calls of an attempt:
\* the one of restoreSession and the one of automateFollow.
C4_ValidIffYounger ==
  [][\A o \in Ops :
       LET claimed == sessionStore # NoSession
                      /\ now - sessionStore.createdAt < SESSION_DURATION_MS
           left == IF claimed THEN sessionStore ELSE NoSession
       IN /\ (ops[o].pc = "launch" /\ ops'[o].pc = "opened") =>
                (ops'[o].restored = claimed /\ sessionStore' = left)
          /\ (ops[o].pc = "opened" /\ ops'[o].pc \in {"liveness", "login"}) =>
                (ops'[o].hasRestoredSession = claimed /\ sessionStore' = left)]_vars

(***************************************************************************)
(* Properties of the retry controller (Spec).                              *)
(***************************************************************************)
TwoFactorMessage == "Two-factor authentication required - manual login needed"

\* C5: if the two-factor marker is detected during the fresh login of any
\* attempt, the login throws without saving a session, and the next thing the
\* operation does is to return status failed with the two-factor message: no
\* further attempt, no backoff sleep, and the attempt counter is not advanced.
C5_TwoFactorFailsFast ==
  [][\A o \in Ops :
       /\ (ops[o].pc = "login" /\ ops'[o].saw2FA) =>
             /\ ops'[o].pc = "catch"
             /\ sessionStore' = sessionStore
             /\ ops'[o].attempt = ops[o].attempt
             /\ ops'[o].launches = ops[o].launches
             /\ ops'[o].sleeps = ops[o].sleeps
       /\ (ops[o].saw2FA /\ ops'[o] # ops[o]) =>
             /\ ops[o].pc = "catch"
             /\ ops'[o].pc = "done"
             /\ ~ops'[o].response.success
             /\ ops'[o].response.status = "failed"
             /\ ops'[o].response.errorDetails = TwoFactorMessage
             /\ sessionStore' = sessionStore
             /\ ops'[o].attempt = ops[o].attempt
             /\ ops'[o].launches = ops[o].launches
             /\ ops'[o].sleeps = ops[o].sleeps]_vars

\* An operation whose second attempt met the two-factor challenge and which has
\* returned.
C5_Witness ==
  \E o \in Ops :
     /\ ops[o].pc = "done" /\ ops[o].saw2FA /\ ops[o].attempt = 1
     /\ ops[o].launches = 2 /\ ops[o].sleeps = <<BASE_DELAY_MS>>
     /\ ops[o].response.errorDetails = TwoFactorMessage

\* C6: no operation performs more than MAX_RETRIES attempts; the backoff sleeps
\* are BASE_DELAY_MS after the first attempt and 2 * BASE_DELAY_MS after the
\* second, with none after the third; an operation of which every attempt threw
\* a non-fatal error has returned status failed after exactly MAX_RETRIES
\* attempts and exactly those two sleeps.
C6_ThreeAttempts ==
  \A o \in Ops :
     /\ ops[o].launches <= MAX_RETRIES
     /\ Len(ops[o].sleeps) <= MAX_RETRIES - 1
     /\ ops[o].sleeps = SubSeq(<<BASE_DELAY_MS * 1, BASE_DELAY_MS * 2>>, 1, Len(ops[o].sleeps))
     /\ ops[o].pc = "backoff" =>
           (Len(ops[o].sleeps) = ops[o].launches /\ ops[o].launches < MAX_RETRIES)
     /\ (ops[o].pc = "done" /\ ops[o].launches > 0 /\ ops[o].thrown = ops[o].launches
           /\ ~ops[o].saw2FA) =>
           /\ ops[o].launches = MAX_RETRIES
           /\ ops[o].sleeps = <<BASE_DELAY_MS * 1, BASE_DELAY_MS * 2>>
           /\ ops[o].response.status = "failed"
           /\ ~ops[o].response.success

\* An operation of which all three attempts threw, after both sleeps have been
\* slept in full.
C6_Witness ==
  \E o \in Ops :
     /\ ops[o].pc = "done" /\ ops[o].thrown = MAX_RETRIES /\ ops[o].launches = MAX_RETRIES
     /\ ~ops[o].saw2FA /\ ops[o].sleeps = <<2000, 4000>>
     /\ now >= StartTime + 6000
     /\ ops[o].response.errorDetails = "timeout"

\* The label of a located control that is in none of the states followUser
\* knows.
UnexpectedLabel(l) ==
  /\ l # NoValue
  /\ l \notin {"following", "requested", "follow", "follow back"}
  /\ ~StrIncludes(l, "unfollow")

\* C8 as stated: an attempt whose located control is in an unexpected state is
\* retried while attempts remain, so an operation ends on such an attempt only
\* when that attempt was its last.
C8_UnknownStateRetried ==
  \A o \in Ops :
     (ops[o].pc = "done" /\ UnexpectedLabel(ops[o].located)) =>
        ops[o].attempt = MAX_RETRIES - 1

\* C8 as amended: an attempt whose located control is in an unexpected state
\* clicks nothing and makes followUser return a failed result; once the browser
\* has closed, automateFollow returns it (status failed, "Unknown button
\* state") with no backoff sleep and no further attempt.  Only a rejection of
\* browser.close() sends the attempt to the catch block.
C8_UnknownStateReturned ==
  [][\A o \in Ops :
       /\ (ops[o].pc = "profile" /\ UnexpectedLabel(ops'[o].located)) =>
             /\ ops'[o].pc = "closing"
             /\ ops'[o].result.status = "failed"
             /\ ops'[o].result.message = "Unknown button state"
             /\ ops'[o].clicks = ops[o].clicks
       /\ (ops[o].pc = "closing" /\ UnexpectedLabel(ops[o].located) /\ ops'[o] # ops[o]) =>
             \/ /\ ops'[o].pc = "done"
                /\ ~ops'[o].response.success
                /\ ops'[o].response.status = "failed"
                /\ ops'[o].response.errorDetails = "Unknown button state"
                /\ ops'[o].attempt = ops[o].attempt
                /\ ops'[o].launches = ops[o].launches
                /\ ops'[o].sleeps = ops[o].sleeps
             \/ /\ ops'[o].pc = "catch"
                /\ ops'[o].error = "close failed"
       /\ ops[o].pc = "done" => ops'[o] = ops[o]]_vars

\* An operation whose second attempt located a control in an unexpected state
\* and which has returned with an attempt to spare.
C8_Witness ==
  \E o \in Ops :
     /\ ops[o].pc = "done" /\ UnexpectedLabel(ops[o].located)
     /\ ops[o].attempt = 1 /\ ops[o].launches = 2 /\ ops[o].sleeps = <<BASE_DELAY_MS>>
     /\ ops[o].response.errorDetails = "Unknown button state"

\* C9 as stated: an attempt short-circuited to failed by a non-empty health
\* verdict is retried while attempts remain, so an operation ends with a health
\* warning only when that attempt was its last.
C9_HealthGateRetried ==
  \A o \in Ops :
     (ops[o].pc = "done" /\ ops[o].response.healthWarning # {}) =>
        ops[o].attempt = MAX_RETRIES - 1

\* C9 as amended: an attempt short-circuited to failed by a non-empty health
\* verdict, at the gate before or after the action, counts a block in the
\* health record and makes followUser return a failed result that carries the
\* issues; once the browser has closed, automateFollow returns it (status
\* failed, the issues as healthWarning, the summary of the health record) with
\* no backoff sleep and no further attempt.  Only a rejection of
\* browser.close() sends the attempt to the catch block.
C9_HealthGateReturned ==
  [][\A o \in Ops :
       /\ (ops[o].pc \in {"profile", "clicked"} /\ ops'[o].result.healthIssues # {}) =>
             /\ ops'[o].pc = "closing"
             /\ ops'[o].result.status = "failed"
             /\ accountHealth'.totalBlocks = accountHealth.totalBlocks + 1
             /\ ~accountHealth'.isHealthy
       /\ (ops[o].pc = "closing" /\ ops[o].result.healthIssues # {} /\ ops'[o] # ops[o]) =>
             \/ /\ ops'[o].pc = "done"
                /\ ~ops'[o].response.success
                /\ ops'[o].response.status = "failed"
                /\ ops'[o].response.healthWarning = ops[o].result.healthIssues
                /\ ops'[o].response.accountHealth = healthSummary(accountHealth)
                /\ ops'[o].attempt = ops[o].attempt
                /\ ops'[o].launches = ops[o].launches
                /\ ops'[o].sleeps = ops[o].sleeps
             \/ /\ ops'[o].pc = "catch"
                /\ ops'[o].error = "close failed"
       /\ ops[o].pc = "done" => ops'[o].pc = "done"]_vars

\* An operation whose first attempt clicked, was stopped at the gate after the
\* action, and which has returned with attempts to spare.
C9_Witness ==
  \E o \in Ops :
     /\ ops[o].pc = "done" /\ ops[o].response.healthWarning = {"temporaryBan"}
     /\ ops[o].attempt = 0 /\ ops[o].clicks = 1 /\ ops[o].sleeps = <<>>
     /\ ops[o].response.accountHealth.totalBlocks = 1

TerminalStatuses == {"notfound", "blocked", "alreadyfollowed", "privateorpending"}

\* C10: an attempt whose outcome is notfound, blocked, alreadyfollowed or
\* privateorpending ends the operation: after followUser has returned that
\* outcome, no backoff sleep and no further attempt follow, and what the
\* operation returns is that outcome.
C10_TerminalEnds ==
  [][\A o \in Ops :
       ops[o].outcome \in TerminalStatuses =>
          /\ ops'[o].sleeps = ops[o].sleeps
          /\ ops'[o].launches = ops[o].launches
          /\ ops'[o].pc = "done" => ops'[o].response.status = ops[o].outcome]_vars

\* C11: every browser launched during an attempt is closed before that attempt
\* ends: when the operation has returned, sleeps before a retry or is about to
\* launch again, no browser process launched by it is still running.
C11_BrowserClosed ==
  \A o \in Ops : ops[o].pc \in {"done", "backoff", "launch"} => ops[o].procs = 0

\* C12: a rejection of browser.close() is never re-raised: once followUser has
\* returned a result in an attempt, no backoff sleep and no further attempt
\* follow, and what the operation returns has the status of that result.
C12_TeardownNotRaised ==
  [][\A o \in Ops :
       ops[o].outcome # NoValue =>
          /\ ops'[o].pc \notin {"backoff", "launch"}
          /\ Len(ops'[o].sleeps) = Len(ops[o].sleeps)
          /\ ops'[o].pc = "done" => ops'[o].response.status = ops[o].outcome]_vars

(***************************************************************************)
(* Properties of the session store under concurrent operations             *)
(* (SpecSession).                                                          *)
(***************************************************************************)
\* C13: while the stored session stays live and younger than
\* SESSION_DURATION_MS, fresh login happens at most once under every
\* interleaving: saveSession never runs while a session younger than
\* SESSION_DURATION_MS, which no liveness check has found dead, is stored.
C13_LoginOnce ==
  [][\A o \in Ops :
       (ops[o].pc = "login" /\ sessionStore' # sessionStore) =>
          ~(sessionStore # NoSession
            /\ now - sessionStore.createdAt < SESSION_DURATION_MS)]_vars

C15_SaveSession ==
  [][(sessionStore' # sessionStore /\ sessionStore' # NoSession) =>
       \E o \in Ops :
          /\ ops[o].pc = "login"
          /\ ops'[o].submitted /\ ops'[o].verified /\ ~ops'[o].saw2FA
          /\ sessionStore'.createdAt = now
          /\ sessionStore'.cookies = o
          /\ sessionStore'.loginCount =
                IF sessionStore # NoSession THEN sessionStore.loginCount + 1 ELSE 1]_vars

\* A session saved over the session another operation had saved before.
C15_Witness ==
  /\ sessionStore # NoSession /\ sessionStore.loginCount = 2 /\ sessionStore.cookies = 2
  /\ ops[2].verified /\ ops[1].pc = "done" /\ ops[1].submitted

(***************************************************************************)
(* Properties of the health monitor.                                       *)
(***************************************************************************)
\* The operation o performs a health classification in this step.
Classifies(o) == Len(ops'[o].verdicts) = Len(ops[o].verdicts) + 1

\* The warnings after one more is appended to w at capacity MAX_WARNINGS.
Appended(w, entry) ==
  LET all == Append(w, entry) IN IF Len(all) > MAX_WARNINGS THEN Tail(all) ELSE all

\* C16: every health classification updates the account-health record: a
\* non-empty issue set sets isHealthy = false and blockDetectedAt = now, adds
\* exactly 1 to totalBlocks and to consecutiveErrors and appends one warning; an
\* empty issue set sets isHealthy = true and consecutiveErrors = 0 whatever it
\* was and leaves totalBlocks, blockDetectedAt and warnings unchanged; both set
\* lastCheckAt = now.  totalBlocks never decreases.
C16_HealthRecord ==
  [][/\ accountHealth'.totalBlocks >= accountHealth.totalBlocks
     /\ \A o \in Ops :
          Classifies(o) =>
            LET issues == ops'[o].verdicts[Len(ops'[o].verdicts)]
            IN /\ accountHealth'.lastCheckAt = now
               /\ IF issues # {}
                  THEN /\ ~accountHealth'.isHealthy
                       /\ accountHealth'.blockDetectedAt = now
                       /\ accountHealth'.totalBlocks = accountHealth.totalBlocks + 1
                       /\ accountHealth'.consecutiveErrors =
                            accountHealth.consecutiveErrors + 1
                       /\ accountHealth'.warnings =
                            Appended(accountHealth.warnings,
                                     [timestamp |-> now, issues |-> issues])
                  ELSE /\ accountHealth'.isHealthy
                       /\ accountHealth'.consecutiveErrors = 0
                       /\ accountHealth'.totalBlocks = accountHealth.totalBlocks
                       /\ accountHealth'.blockDetectedAt = accountHealth.blockDetectedAt
                       /\ accountHealth'.warnings = accountHealth.warnings]_vars

\* Two blocks in a row, recorded in two attempts, and then, after the backoff,
\* a healthy verdict that has reset consecutiveErrors from 2.
C16_Witness ==
  /\ accountHealth.isHealthy /\ accountHealth.consecutiveErrors = 0
  /\ accountHealth.totalBlocks = 2 /\ Len(accountHealth.warnings) = 2
  /\ accountHealth.lastCheckAt > accountHealth.blockDetectedAt
  /\ accountHealth.blockDetectedAt > StartTime
  /\ ops[1].verdicts = <<{}>> /\ ops[1].attempt = 2

\* C17: accountHealth.warnings never holds more than MAX_WARNINGS (10) entries;
\* when an 11th warning is appended the oldest one is dropped, and the
\* remaining entries stay in order of arrival.
C17_WarningsCapped ==
  [][/\ Len(accountHealth'.warnings) <= MAX_WARNINGS
     /\ accountHealth'.warnings # accountHealth.warnings =>
          LET old == accountHealth.warnings
              new == accountHealth'.warnings
          IN /\ new[Len(new)].timestamp = now
             /\ IF Len(old) < 10
                THEN /\ Len(new) = Len(old) + 1
                     /\ \A i \in 1..Len(old) : new[i] = old[i]
                ELSE /\ Len(new) = 10
                     /\ \A i \in 1..9 : new[i] = old[i + 1]]_vars

\* Eleven blocks have been recorded: the first warning is gone, and the ten
\* that are kept are in order of arrival.
C17_Witness ==
  /\ accountHealth.totalBlocks = 11 /\ Len(accountHealth.warnings) = 10
  /\ accountHealth.warnings[1].timestamp > StartTime
  /\ \A i \in 1..9 :
       accountHealth.warnings[i].timestamp < accountHealth.warnings[i + 1].timestamp

\* C18 as stated: in every attempt the account-health record is updated at
\* least once and at most twice: an attempt that has thrown or has a result
\* has performed one or two health classifications.
C18_OnceOrTwice ==
  \A o \in Ops :
     ops[o].pc \in {"catch", "closing"} => Len(ops[o].verdicts) \in {1, 2}

\* C18 as amended: the account-health record is updated in an attempt at most
\* twice, once per health classification performed in that attempt and at no
\* other step; at least once in every attempt in which followUser returns a
\* result, twice only after a click; and not at all in an attempt that throws
\* before followUser (launch, page, liveness check or login).
C18_UpdatedPerClassification ==
  [][/\ \A o \in Ops :
          /\ Len(ops'[o].verdicts) <= 2
          /\ ops'[o].pc = "closing" => Len(ops'[o].verdicts) >= 1
          /\ Len(ops'[o].verdicts) = 2 => ops'[o].clicks > 0
          /\ (ops'[o].pc = "catch"
              /\ ops[o].pc \in {"launch", "opened", "liveness", "login"}) =>
                ops'[o].verdicts = <<>>
          /\ Classifies(o) =>
                (ops[o].pc \in {"profile", "clicked"} /\ accountHealth'.lastCheckAt = now)
     /\ accountHealth' # accountHealth => \E o \in Ops : Classifies(o)]_vars

\* A second attempt that has clicked and classified twice, the second verdict
\* being a block, after time has passed since the process started.
C18_Witness ==
  \E o \in Ops :
     /\ ops[o].pc = "closing" /\ ops[o].attempt = 1 /\ Len(ops[o].verdicts) = 2
     /\ ops[o].verdicts[1] = {} /\ ops[o].verdicts[2] # {}
     /\ accountHealth.lastCheckAt = now /\ now > StartTime
     /\ accountHealth.totalBlocks = 1

(***************************************************************************)
(* Properties of followUser's outcomes (Spec).                             *)
(***************************************************************************)
\* C19: if the control located on first inspection reads 'following' or
\* contains 'unfollow' the attempt's outcome is alreadyfollowed, and if it
\* reads 'requested' the outcome is privateorpending; in both cases the attempt
\* performs no click and no second health classification.
C19_SettledControl ==
  [][\A o \in Ops :
       LET label == ops'[o].located
           following == label = "following" \/ StrIncludes(label, "unfollow")
           requested == label = "requested"
           was == ops[o].located
       IN /\ (ops[o].pc = "profile" /\ ops'[o].pc # "catch" /\ (following \/ requested)) =>
                /\ ops'[o].pc = "closing"
                /\ ops'[o].outcome = IF following THEN "alreadyfollowed"
                                                  ELSE "privateorpending"
                /\ ops'[o].result.status = ops'[o].outcome
                /\ ops'[o].clicks = ops[o].clicks
                /\ Len(ops'[o].verdicts) = 1
          /\ (was = "following" \/ StrIncludes(was, "unfollow") \/ was = "requested") =>
                /\ ops'[o].clicks = ops[o].clicks
                /\ ~Classifies(o)
                /\ ops'[o].pc # "clicked"]_vars

\* A second attempt that found the control reading 'unfollow' and has returned
\* alreadyfollowed without a click.
C19_Witness ==
  \E o \in Ops :
     /\ ops[o].pc = "done" /\ ops[o].located = "unfollow" /\ ops[o].attempt = 1
     /\ ops[o].clicks = 0 /\ Len(ops[o].verdicts) = 1
     /\ ops[o].response.status = "alreadyfollowed" /\ ops[o].response.success

\* C20: an attempt's outcome is followed only if, in that attempt, the verdict
\* before the action was empty, the control read 'follow' or 'follow back' and
\* was clicked, the settled label is 'following' or an unfollow variant, and
\* the verdict after the action was empty; a non-empty verdict after the action
\* always yields failed carrying the issues, even when the settled label shows
\* success; a settled label 'requested' with an empty verdict yields
\* privateorpending.
C20_FollowedOnlyIfClean ==
  [][\A o \in Ops :
       LET after == ops'[o]
           last == after.verdicts[Len(after.verdicts)]
       IN /\ (after.outcome = "followed" /\ ops[o].outcome # "followed") =>
                /\ ops[o].pc = "clicked"
                /\ after.clicks > 0
                /\ after.located \in {"follow", "follow back"}
                /\ after.verdicts = <<{}, {}>>
                /\ after.settled = "following" \/ StrIncludes(after.settled, "unfollow")
          /\ ops'[o].pc = "clicked" =>
                /\ after.located \in {"follow", "follow back"}
                /\ after.verdicts = <<{}>>
                /\ ops[o].pc = "profile" => after.clicks = ops[o].clicks + 1
          /\ (ops[o].pc = "clicked" /\ Classifies(o) /\ last # {}) =>
                /\ after.settled # NoValue
                /\ after.outcome = "failed"
                /\ after.result.status = "failed"
                /\ after.result.healthIssues = last
          /\ (ops[o].pc = "clicked" /\ Classifies(o) /\ last = {}
              /\ after.settled = "requested") =>
                /\ after.outcome = "privateorpending"
                /\ after.result.status = "privateorpending"]_vars

\* A second attempt that clicked 'follow back', saw the label settle on
\* 'following' with two clean verdicts, and has returned followed.
C20_Witness ==
  \E o \in Ops :
     /\ ops[o].pc = "done" /\ ops[o].attempt = 1 /\ ops[o].outcome = "followed"
     /\ ops[o].located = "follow back" /\ ops[o].settled = "following"
     /\ ops[o].verdicts = <<{}, {}>> /\ ops[o].response.success
     /\ ops[o].response.status = "followed"

\* C30: followUser evaluates its gates in the order health gate, existence
\* check, blocked-by-target check, control lookup, and the first gate that
\* fires determines the outcome: a profile page with a non-empty verdict yields
\* failed carrying the issues after the health classification alone, with no
\* control located and no click, whatever else the page shows; otherwise a
\* not-found page yields notfound, otherwise a blocked page yields blocked,
\* and only otherwise is the control looked up.
C30_GateOrder ==
  [][\A o \in Ops :
       LET after == ops'[o]
           order == <<"checkAccountHealth", "pageNotFound", "isBlocked", "buttonInfo">>
       IN (ops[o].pc = "profile" /\ after.pc \in {"closing", "clicked"}) =>
            /\ after.evals = SubSeq(order, 1, Len(after.evals))
            /\ IF "issues" \in after.markers
               THEN /\ after.pc = "closing" /\ after.outcome = "failed"
                    /\ after.result.status = "failed"
                    /\ after.result.healthIssues = after.verdicts[1]
                    /\ after.result.healthIssues # {}
                    /\ after.evals = <<"checkAccountHealth">>
                    /\ after.located = NoValue /\ after.clicks = ops[o].clicks
               ELSE IF "notfound" \in after.markers
               THEN /\ after.pc = "closing" /\ after.outcome = "notfound"
                    /\ Len(after.evals) = 2
                    /\ after.located = NoValue /\ after.clicks = ops[o].clicks
               ELSE IF "blocked" \in after.markers
               THEN /\ after.pc = "closing" /\ after.outcome = "blocked"
                    /\ Len(after.evals) = 3
                    /\ after.located = NoValue /\ after.clicks = ops[o].clicks
               ELSE /\ Len(after.evals) = 4
                    /\ "control" \in after.markers <=> after.located # NoValue
                    /\ "control" \notin after.markers =>
                          after.pc = "closing" /\ after.outcome = "failed"]_vars

\* An attempt has returned failed with the issues of a profile page that also
\* shows the not-found and the blocked markers and a follow control, after the
\* health classification alone.
C30_Witness ==
  \E o \in Ops :
     /\ ops[o].pc = "closing" /\ ops[o].markers = {"issues", "notfound", "blocked", "control"}
     /\ ops[o].evals = <<"checkAccountHealth">> /\ ops[o].outcome = "failed"
     /\ ops[o].result.healthIssues = {"temporaryBan"} /\ ops[o].clicks = 0

\* C29: followUser checks account health both before and after the follow
\* action: in every attempt in which the follow control is clicked and the
\* settled page is read, a health classification is performed after the click
\* and before the attempt's outcome is determined, so the attempt ends with
\* two verdicts and the health record was checked at that moment.
C29_CheckedAfterClick ==
  [][\A o \in Ops :
       (ops[o].pc = "clicked" /\ ops'[o].pc = "closing") =>
          /\ Len(ops'[o].verdicts) = 2
          /\ accountHealth'.lastCheckAt = now]_vars

\* C22: when the third attempt throws an error other than the two-factor
\* one, the response has success = false, status failed, errorDetails equal
\* to the message of that error, and accountHealth equal to isHealthy,
\* totalBlocks and consecutiveErrors of the health record at the moment of
\* return; and every response without success carries a non-empty
\* errorDetails.
C22_ExhaustedResponse ==
  [][\A o \in Ops :
       LET response == ops'[o].response
       IN /\ (ops[o].pc = "catch" /\ ops[o].attempt = MAX_RETRIES - 1
              /\ ops[o].error # "2FA_CHALLENGE_DETECTED" /\ ops'[o].pc # "catch") =>
                /\ ops'[o].pc = "done"
                /\ ~response.success /\ response.status = "failed"
                /\ response.errorDetails = ops[o].error
                /\ response.accountHealth.isHealthy = accountHealth'.isHealthy
                /\ response.accountHealth.totalBlocks = accountHealth'.totalBlocks
                /\ response.accountHealth.consecutiveErrors = accountHealth'.consecutiveErrors
          /\ (ops'[o].pc = "done" /\ ~response.success) =>
                response.errorDetails \notin {"", NoValue}]_vars

\* The third attempt has thrown after an earlier attempt met a block notice:
\* the response reports the message of the last error and a health record
\* that is not healthy.
C22_Witness ==
  \E o \in Ops :
     /\ ops[o].pc = "done" /\ ops[o].attempt = MAX_RETRIES - 1 /\ ops[o].thrown = MAX_RETRIES
     /\ ops[o].response.errorDetails = "launch failed"
     /\ ~ops[o].response.accountHealth.isHealthy
     /\ ops[o].response.accountHealth.totalBlocks > 0
     /\ ops[o].response.accountHealth.totalBlocks = accountHealth.totalBlocks

\* The places of an attempt at which its page, context or browser is used.
UsesContext(op) == op.pc \in {"opened", "liveness", "login", "profile", "clicked", "closing"}

\* C27: each attempt uses a browser and context created in that attempt: the
\* context an operation uses was made in its current attempt, and no two
\* operations hold the same context.
C27_ContextPerAttempt ==
  \A o \in Ops :
     /\ UsesContext(ops[o]) => /\ ops[o].context.id # 0
                               /\ ops[o].context.madeIn = ops[o].attempt
     /\ \A p \in Ops \ {o} : ops[o].context.id # 0 => ops[p].context.id # ops[o].context.id

\* Two operations use their contexts at the same time, one of them in its
\* second attempt.
C27_Witness ==
  \E o, p \in Ops :
     /\ o # p /\ UsesContext(ops[o]) /\ UsesContext(ops[p])
     /\ ops[o].attempt = 1 /\ ops[o].context.madeIn = 1
     /\ ops[p].context.id # ops[o].context.id

\* C26: no address's count exceeds 5 and globalRequestCount does not exceed
\* 20; a rejected request increments no counter; and every admitted request
\* raises the count of one address and the global count by one from the value
\* it was checked against (1 where its window had ended), so that no two
\* requests pass the check on the same value.
C26_RateLimits ==
  [][LET store == http.rateLimitStore
         after == http'.rateLimitStore
         changed == {ip \in Ips : after[ip] # store[ip]}
         base == IF now > http.globalResetAt THEN 0 ELSE http.globalRequestCount
     IN /\ \A ip \in Ips : after[ip].count <= RATE_LIMIT_MAX_REQUESTS
        /\ http'.globalRequestCount <= GLOBAL_RATE_LIMIT_MAX
        /\ (now' = now /\ http'.reply.code = 429) =>
              /\ changed = {}
              /\ http'.globalRequestCount = base
        /\ (now' = now /\ http'.reply.code = 400) =>
              /\ \E ip \in Ips :
                    /\ changed = {ip}
                    /\ after[ip].count =
                          IF store[ip] = NoClient \/ now > store[ip].resetAt THEN 1
                          ELSE store[ip].count + 1
                    /\ after[ip].resetAt >= now
              /\ http'.globalRequestCount = base + 1]_vars

\* Four addresses have used up their five requests, the global count stands
\* at 20 and a fifth address has been turned away.
C26_Witness ==
  /\ http.globalRequestCount = GLOBAL_RATE_LIMIT_MAX
  /\ Cardinality({ip \in Ips : http.rateLimitStore[ip].count = RATE_LIMIT_MAX_REQUESTS}) = 4
  /\ http.reply.code = 429 /\ http.reply.message = "Global rate limit exceeded"

\* C21: automateFollow is invoked only with the trimmed, lower-cased username
\* of the request, which consists of 1 to 30 characters from [a-z0-9._]; a
\* request whose username is missing, not a string or fails the pattern is
\* answered 400 (unless the token or the rate limiter turned it away before)
\* and changes none of the cooldown record, the session store, the
\* account-health record and the operations.
C21_ValidTargetOnly ==
  [][LET alphabet == {LowerCase[k] : k \in 1..Len(LowerCase)} \cup Digits \cup {".", "_"}
         request == http' # http /\ now' = now
     IN /\ \A o \in Ops :
             (ops[o].pc = "idle" /\ ops'[o].pc # "idle") =>
                LET target == ops'[o].username
                IN /\ Len(target) >= 1 /\ Len(target) <= 30
                   /\ \A i \in 1..Len(target) : target[i] \in alphabet
                   /\ http'.body.kind = "string"
                   /\ target = toLowerCase(trim(http'.body.chars))
        /\ (request /\ http'.body \in InvalidUsernames) =>
              /\ http'.reply.code \in {400, 401, 429}
              /\ UNCHANGED <<lastFollowAction, sessionStore, accountHealth, ops>>
        /\ (request /\ http'.reply.code = 400) =>
              /\ http'.body \in InvalidUsernames
              /\ UNCHANGED <<lastFollowAction, sessionStore, accountHealth, ops>>]_vars

\* The request with the username ' Bob_1. ' has been handed to the engine as
\* 'bob_1.' and, after it had logged in and met a block notice, a request
\* with a username of 31 characters has been answered 400.
C21_Witness ==
  /\ ops[1].pc = "answered" /\ ops[1].username = <<"b", "o", "b", "_", "1", ".">>
  /\ sessionStore # NoSession /\ accountHealth.totalBlocks = 1
  /\ lastFollowAction.timestamp # 0
  /\ http.reply.code = 400 /\ http.body = Str(Repeat("a", 31))

SuccessStatuses == {"followed", "alreadyfollowed", "privateorpending"}

\* C23: the response of automateFollow has success = true exactly when its
\* status is followed, alreadyfollowed or privateorpending, and POST /follow
\* answers 200 exactly when success is true and 500 for every other response
\* of the engine.
C23_SuccessAndHttpStatus ==
  \A o \in Ops :
     /\ ops[o].pc \in {"done", "answered"} =>
           /\ ops[o].response.success <=> ops[o].response.status \in SuccessStatuses
           /\ ops[o].response.status \in
                 SuccessStatuses \cup {"failed", "notfound", "blocked"}
     /\ ops[o].pc = "answered" =>
           /\ ops[o].httpStatus = 200 <=> ops[o].response.success
           /\ ops[o].httpStatus = 500 <=> ~ops[o].response.success
     /\ ops[o].pc # "answered" => ops[o].httpStatus = 0

\* A request whose target does not exist has been answered 500 with status
\* notfound.
C23_Witness ==
  \E o \in Ops :
     /\ ops[o].pc = "answered" /\ ops[o].httpStatus = 500
     /\ ops[o].response.status = "notfound" /\ ~ops[o].response.success

\* C24: GET /account-health is a read-only projection: handling it changes
\* none of sessionStore (also when the stored session is older than 24 h),
\* lastFollowAction, accountHealth, rateLimitStore and globalRequestCount,
\* nor any running operation.
C24_ReadOnly ==
  [][(http'.reply # http.reply /\ http'.reply.route = "account-health") =>
       /\ UNCHANGED <<sessionStore, lastFollowAction, accountHealth, ops, now>>
       /\ http'.rateLimitStore = http.rateLimitStore
       /\ http'.globalRequestCount = http.globalRequestCount
       /\ http'.globalResetAt = http.globalResetAt]_vars

\* GET /account-health has been answered while the stored session, saved by
\* a login, is older than 24 h, and the session is still stored.
C24_Witness ==
  /\ http.reply.route = "account-health" /\ http.reply.code = 200
  /\ sessionStore # NoSession /\ sessionStore.loginCount > 0
  /\ now - sessionStore.createdAt > SESSION_DURATION_MS
  /\ http.reply.loginCount = sessionStore.loginCount
  /\ lastFollowAction.timestamp # 0

\* C25: whenever GET /account-health reports session.isActive = true, session
\* cookies are stored and the session is valid, that is younger than 24 h, so
\* that the reported expiresInMinutes is not negative.
C25_ActiveMeansValid ==
  (http.reply.route = "account-health" /\ http.reply.code = 200 /\ http.reply.isActive) =>
     http.reply.expiresInMinutes >= 0

\* C28: every automateFollow invocation eventually returns a response,
\* provided every step of the browser resolves or rejects and every timer
\* fires; on its way it calls enforceCooldown once, and so waits for the
\* cooldown at most once, launches at most 3 attempts and sleeps at most 2
\* backoffs.
C28_Terminates ==
  /\ [](\A o \in Ops : /\ ops[o].cdCalls <= 1
                        /\ ops[o].launches <= MAX_RETRIES
                        /\ ops[o].attempt < MAX_RETRIES
                        /\ Len(ops[o].sleeps) <= MAX_RETRIES - 1)
  /\ \A o \in Ops : (ops[o].pc # "idle") ~> (ops[o].pc = "done")

\* An operation has returned after a cooldown wait, three attempts and two
\* backoff sleeps.
C28_Witness ==
  \E o \in Ops :
     /\ ops[o].pc = "done" /\ ops[o].cdCalls = 1 /\ ops[o].cdWrites = 1
     /\ now >= StartTime + MIN_COOLDOWN_MS
     /\ ops[o].launches = MAX_RETRIES /\ Len(ops[o].sleeps) = MAX_RETRIES - 1
     /\ ~ops[o].response.success

(***************************************************************************)
(* The retry loop's exits (Spec).                                          *)
(***************************************************************************)
\* C38: the response 'Unexpected error in retry logic' that follows the
\* retry loop of automateFollow is never returned: an operation that sleeps
\* before a retry has attempt < MAX_RETRIES - 1, so the loop never ends by
\* its condition, and no operation ever holds that response.
C38_NoFallback ==
  \A o \in Ops :
    /\ ops[o].response.errorDetails # "Unexpected error in retry logic"
    /\ ops[o].pc = "backoff" => ops[o].attempt < MAX_RETRIES - 1
    /\ ops[o].attempt < MAX_RETRIES

\* The operation has failed MAX_RETRIES times, slept between the attempts
\* and returned from the last catch block.
C38_Witness ==
  /\ ops[1].pc = "done"
  /\ ops[1].thrown = MAX_RETRIES
  /\ Len(ops[1].sleeps) = MAX_RETRIES - 1
  /\ ops[1].attempt = MAX_RETRIES - 1
  /\ ops[1].response.status = "failed"

(***************************************************************************)
(* The restored session that is no longer live (SpecSession).              *)
(***************************************************************************)
\* C31: when the home page loaded with a restored session shows no
\* authenticated landmark, the step that finds this out empties the session
\* store and leads to the fresh login of the same attempt, with no error
\* thrown and no credentials submitted yet; the attempt never returns to the
\* liveness check; and when its fresh login succeeds a new session, created
\* now by this operation, is in the store.
C31_DeadSessionCleared ==
  [][\A o \in Ops :
       /\ (ops[o].pc = "liveness" /\ ops'[o] # ops[o] /\ ~ops'[o].homeOk) =>
             /\ sessionStore' = NoSession
             /\ ops'[o].pc = "login"
             /\ ops'[o].thrown = ops[o].thrown /\ ops'[o].error = NoValue
             /\ ops'[o].attempt = ops[o].attempt /\ ops'[o].launches = ops[o].launches
             /\ ops'[o].context = ops[o].context
             /\ ~ops'[o].submitted
       /\ ops[o].pc = "login" => ops'[o].pc # "liveness"
       /\ (ops[o].pc = "login" /\ ops[o].hasRestoredSession /\ ops'[o].pc = "profile") =>
             /\ ops'[o].submitted
             /\ sessionStore' # NoSession
             /\ sessionStore'.createdAt = now
             /\ sessionStore'.cookies = o]_vars

\* An operation that restored the session of another one, found it dead,
\* logged in afresh in the same attempt and has stored its own session.
C31_Witness ==
  \E o \in Ops :
     /\ ops[o].pc = "profile" /\ ops[o].launches = 1 /\ ops[o].thrown = 0
     /\ ops[o].restored /\ ops[o].hasRestoredSession /\ ~ops[o].homeOk
     /\ ops[o].submitted /\ ops[o].verified
     /\ sessionStore.cookies = o /\ sessionStore.loginCount = 1

C35_FlagMatchesRestore ==
  \A o \in Ops :
    ops[o].pc \in {"liveness", "login"} => (ops[o].hasRestoredSession <=> ops[o].restored)

(***************************************************************************)
(* What the invalidation discards (SpecSession).                           *)
(***************************************************************************)
\* C36: when a restored session fails the liveness check, the invalidation
\* removes only the session that was restored into that attempt: the session
\* it discards is never one that another operation saved after the restore.
C36_OnlyRestoredDiscarded ==
  [][\A o \in Ops :
       (/\ ops[o].pc = "liveness" /\ ops'[o].pc = "login"
        /\ ops[o].restored
        /\ sessionStore # NoSession) =>
          sessionStore = ops[o].restoredFrom]_vars

C33_Classification ==
  [][\A o \in Ops :
       Classifies(o) =>
         LET c == ops'[o].classified
             has(phrases) == c.text \cap phrases # {}
         IN /\ c.any
            /\ c.issues \subseteq {"actionBlocked", "temporaryBan", "spamDetected",
                                   "rateLimited", "accountWarning", "captchaChallenge"}
            /\ "actionBlocked" \in c.issues <=>
                  has({"action blocked", "we restrict certain activity",
                       "this action was blocked"})
            /\ "temporaryBan" \in c.issues <=>
                  has({"try again later", "please wait a few minutes"})
            /\ "spamDetected" \in c.issues <=>
                  has({"unusual activity", "spam", "automated behavior"})
            /\ "rateLimited" \in c.issues <=> has({"too many requests", "slow down"})
            /\ "accountWarning" \in c.issues <=>
                  (has({"your account"}) /\ has({"warning", "violation"}))
            /\ "captchaChallenge" \in c.issues <=>
                  (has({"security check", "prove you're not a robot"})
                     \/ "recaptcha" \in c.html)
            /\ accountHealth'.isHealthy <=> c.issues = {}
            /\ ops'[o].verdicts[Len(ops'[o].verdicts)] = c.issues
            /\ (ops[o].classified.any /\ ops[o].classified.text = c.text
                  /\ ops[o].classified.html = c.html) =>
                  c.issues = ops[o].classified.issues]_vars

\* A page on which all six patterns hold has been classified twice, in two
\* attempts of the operation.
C33_Witness ==
  /\ ops[1].attempt = 1 /\ ops[1].pc = "closing"
  /\ ops[1].classified.text = BlockPhrases
  /\ Cardinality(ops[1].classified.issues) = 6
  /\ accountHealth.totalBlocks = 2
  /\ accountHealth.warnings[1].issues = accountHealth.warnings[2].issues

(***************************************************************************)
(* Authentication before everything else (SpecAuth).                       *)
(***************************************************************************)
\* C32: a POST /follow request whose Authorization header is missing or is
\* not 'Bearer ' followed by the token is rejected with 401 before rate
\* limiting runs: the step leaves rateLimitStore, globalRequestCount and
\* globalResetAt as they were and reaches neither the username validation
\* nor the engine.
C32_UnauthorizedRejectedFirst ==
  [][(/\ http' # http
      /\ http'.reply.route = "follow"
      /\ http'.auth # <<"B", "e", "a", "r", "e", "r", " ">> \o BEARER_TOKEN) =>
        /\ http'.reply.code = 401
        /\ http'.rateLimitStore = http.rateLimitStore
        /\ http'.globalRequestCount = http.globalRequestCount
        /\ http'.globalResetAt = http.globalResetAt
        /\ ops' = ops
        /\ lastFollowAction' = lastFollowAction]_vars

====
